---------------------------- MODULE Spec2Model ----------------------------
(***************************************************************************)
(* Order checkout and payment completion of the pizza-ordering back end:   *)
(* the flat-file document store, the Token, Item, Order and User handlers  *)
(* and the asynchronous steps of Order.post, Order.put,                    *)
(* Order.prototype.complete and User.checkout.                             *)
(*                                                                         *)
(* Every callback of an I/O operation (a dataStore call, a request to the  *)
(* payment gateway or to the mail transport) is one action: the effect of  *)
(* the operation and the synchronous code of its callback, up to the next  *)
(* I/O operation that callback issues.  Time is counted in half hours      *)
(* (Date.now() is the variable now).  Amounts are whole dollars.           *)
(***************************************************************************)
EXTENDS Integers, Sequences, FiniteSets, Bags, TLC

(***************************************************************************)
(* Bounds of the model.                                                    *)
(***************************************************************************)
\* number of requests (each request slot serves one request)
NProcs == 2
\* Date.now() never exceeds MaxClock
MaxClock == 3
\* number of further calls of complete on an Order instance
MaxCalls == 1

(***************************************************************************)
(* Program constants.                                                      *)
(***************************************************************************)
\* a token lives one hour: Date.now() + 1000 * 60 * 60, in half hours
TokenTTL == 2
\* makePayment hands price * 100 to the gateway
MinorUnits == 100

Procs == 1..NProcs

\* well-formed e-mail addresses (they match EMAIL_REGEXP) and one that is not
Emails == {"u1", "u2"}
BadEmail == "bad"
\* well-formed token ids (20 characters) and one that is not
TokenIds == {"t1", "t2"}
BadToken == "short"
\* well-formed item ids (10 characters)
ItemIds == {"A", "B"}
\* unit prices an item record may hold, quantities a payload may hold
Prices == {5, 10}
Quantities == {-1, 1, 2}

\* JSON null / undefined in a numeric field
NoTime == -1
\* paymentInfo: null, or the receipt of the k-th charge (k > 0), or an
\* object supplied by a client
NoPayment == 0
ForgedPayment == -1
\* the status argument null (helpers.ajax calls back with (null, result))
NullStatus == 0

VARIABLES
    now,      \* Date.now()
    users,    \* .data/users:  email    -> user document
    tokens,   \* .data/tokens: token id -> token document
    orders,   \* .data/orders: order id -> order document
    items,    \* .data/items:  item id  -> unit price of the item document
    IDs,      \* the identifiers createRandomString has issued
    charges,  \* the charges the payment gateway has made, in order
    mails,    \* the invoices the mail transport has accepted, in order
    req,      \* the requests: position and local variables of every request
    bg        \* the fire-and-forget token tasks in flight (a bag)

vars == <<now, users, tokens, orders, items, IDs, charges, mails, req, bg>>

store == <<users, tokens, orders, items>>

(***************************************************************************)
(* Small helpers on functions with a finite domain (JSON objects).         *)
(***************************************************************************)
EmptyMap == [k \in {} |-> 0]

\* m with key k set to v
Put(m, k, v) == [x \in DOMAIN m \cup {k} |-> IF x = k THEN v ELSE m[x]]

\* m without key k (delete m[k], fs.unlink)
Drop(m, k) == [x \in DOMAIN m \ {k} |-> m[x]]

\* a JavaScript number used as a condition: neither absent nor 0
Truthy(n) == n # NoTime /\ n # 0

\* typeof n === "number"
IsNumber(n) == n # NoTime

(***************************************************************************)
(* helpers                                                                 *)
(***************************************************************************)
\* a check of emails that lets every non-empty string through
isNonEmptyEmail(value) == value # ""

isValidEmail(value) == value \in Emails

isValidTokenId(value) == value \in TokenIds

isValidItemId(value) == value \in ItemIds

isValidOrderId(value) == value \in Nat /\ value > 0

\* Order.createUniqueId: createRandomString(20), the registry string less
\* its first character, which is the same at every time of the model: the
\* ids are as distinct as the registry strings, and are numbered
createUniqueId == CHOOSE i \in 1..(Cardinality(IDs) + 1) : i \notin IDs


(***************************************************************************)
(* A payload or a parsed document is a record that holds some of the       *)
(* fields; Get reads a field, with d for a field that is not there.        *)
(***************************************************************************)
Get(payload, f, d) == IF f \in DOMAIN payload THEN payload[f] ELSE d

NoEmail == ""
NoId == 0

(***************************************************************************)
(* Item: the catalog.  items maps the id of every item document to its     *)
(* unit price; Item.toJSON gives unitPrice 0 for a price that is not > 0.  *)
(***************************************************************************)
isValidPrice(value) == IsNumber(value) /\ value > 0

ItemUnitPrice(value) == IF isValidPrice(value) THEN value ELSE 0

(***************************************************************************)
(* Order: the constructor with its setters, and toJSON.  An instance and   *)
(* a document have the same fields; completedOn = NoTime is the field left *)
(* undefined (JSON.stringify drops it), paymentInfo = NoPayment is null.   *)
(***************************************************************************)
\* set items: a value with a key that is no item id is discarded
OrderSetItems(value) ==
    IF \A key \in DOMAIN value : isValidItemId(key) THEN value ELSE EmptyMap

\* a constructor that takes completedOn and total as they are given
OrderNewUnchecked(params, t) ==
    LET id == Get(params, "id", NoId)
        email == Get(params, "email", NoEmail)
    IN [id          |-> IF isValidOrderId(id) THEN id ELSE NoId,
        email       |-> IF isValidEmail(email) THEN email ELSE NoEmail,
        createdOn   |-> IF IsNumber(Get(params, "createdOn", NoTime))
                        THEN params.createdOn ELSE t,
        completedOn |-> Get(params, "completedOn", NoTime),
        paymentInfo |-> Get(params, "paymentInfo", NoPayment),
        total       |-> Get(params, "total", 0),
        items       |-> OrderSetItems(Get(params, "items", EmptyMap))]

\* new Order(params) at time t
OrderNew(params, t) ==
    LET id == Get(params, "id", NoId)
        email == Get(params, "email", NoEmail)
        created == IF IsNumber(Get(params, "createdOn", NoTime))
                   THEN params.createdOn ELSE t
        completed == Get(params, "completedOn", NoTime)
        payment == Get(params, "paymentInfo", NoPayment)
        total == Get(params, "total", NoTime)
    IN [id          |-> IF isValidOrderId(id) THEN id ELSE NoId,
        email       |-> IF isValidEmail(email) THEN email ELSE NoEmail,
        createdOn   |-> created,
        completedOn |-> IF IsNumber(completed) /\ completed >= created
                        THEN completed ELSE NoTime,
        paymentInfo |-> IF payment # NoPayment THEN payment ELSE NoPayment,
        total       |-> IF IsNumber(total) /\ total >= 0 THEN total ELSE 0,
        items       |-> OrderSetItems(Get(params, "items", EmptyMap))]

\* set completedOn(value) on an instance
OrderSetCompletedOn(order, value) ==
    IF IsNumber(value) /\ value >= order.createdOn
    THEN [order EXCEPT !.completedOn = value] ELSE order

\* set total(value) on an instance
OrderSetTotal(order, value) ==
    IF IsNumber(value) /\ value >= 0
    THEN [order EXCEPT !.total = value] ELSE order

\* an Order instance that stands for "no order"
NoOrder == [id |-> NoId, email |-> NoEmail, createdOn |-> NoTime,
            completedOn |-> NoTime, paymentInfo |-> NoPayment, total |-> 0,
            items |-> EmptyMap]

\* a filter that keeps every key of the payload
KeepItems(cartItems, itemIDs) == cartItems

\* remove all keys that are not valid item IDs (Order.post, Order.put)
FilterItems(cartItems, itemIDs) ==
    [k \in {c \in DOMAIN cartItems : c \in itemIDs} |-> cartItems[k]]

\* the reduce of complete: the sum over the order's items found in the
\* hashmap of unitPrice * quantity
RECURSIVE ReduceTotal(_, _, _)
ReduceTotal(keys, orderItemsMap, hashmap) ==
    IF keys = {} THEN 0
    ELSE LET cartItem == CHOOSE k \in keys : TRUE
             rest == ReduceTotal(keys \ {cartItem}, orderItemsMap, hashmap)
         IN IF cartItem \in DOMAIN hashmap
            THEN rest + hashmap[cartItem] * orderItemsMap[cartItem]
            ELSE rest

\* a total that adds up the quantities and leaves out the unit prices
OrderTotalQty(orderItemsMap, hashmap) ==
    ReduceTotal(DOMAIN orderItemsMap, orderItemsMap, [i \in DOMAIN hashmap |-> 1])

OrderTotal(orderItemsMap, hashmap) ==
    ReduceTotal(DOMAIN orderItemsMap, orderItemsMap, hashmap)

\* a guard that takes an order paid in the instant it was created for unpaid
AlreadyCompletedStrict(order) ==
    Truthy(order.completedOn) /\ order.createdOn < order.completedOn

\* 1.a. of complete: the order is already paid
AlreadyCompleted(order) ==
    Truthy(order.completedOn) /\ order.createdOn <= order.completedOn

\* a guard that lets a total of 0 through
NonNegativeTotal(total) == total >= 0

\* 2.d. of complete: the order has something to pay
PositiveTotal(total) == total > 0

(***************************************************************************)
(* Token                                                                   *)
(***************************************************************************)
\* a check that does not look at the expiration
TokenCheckNoExpiry(data, id, t) == data.id = id

\* the check of Token.prototype.isValid on the document read
TokenCheck(data, id, t) == data.id = id /\ data.expiration > t

(***************************************************************************)
(* User: the constructor and toJSON, for the fields the ledger uses.       *)
(***************************************************************************)
UserNew(params) ==
    [email  |-> IF isValidEmail(Get(params, "email", NoEmail))
                THEN params.email ELSE NoEmail,
     cart   |-> Get(params, "cart", EmptyMap),
     orders |-> Get(params, "orders", <<>>)]

NoUser == [email |-> NoEmail, cart |-> EmptyMap, orders |-> <<>>]

(***************************************************************************)
(* Requests.  A request is at pc "idle" before it starts, at "done" after  *)
(* its callback was invoked (status, res), at "hung" when a callback it    *)
(* waits for is never invoked, and at "thrown" after an uncaught exception *)
(* in one of its callbacks.  Any other pc names the I/O operation whose    *)
(* callback is the request's next step.                                    *)
(***************************************************************************)
Idle ==
    [op |-> "idle", pc |-> "idle",
     email |-> NoEmail, tok |-> BadToken,
     payload |-> [id |-> NoId],
     user |-> NoUser, order |-> NoOrder,
     ids |-> {}, cartItems |-> EmptyMap,
     itemId |-> "", quantity |-> NoTime,
     toDelete |-> {}, deletionErrors |-> FALSE,
     pendOrder |-> NoOrder, pendUser |-> NoUser,
     amount |-> 0, ost |-> NullStatus,
     status |-> NullStatus, res |-> "",
     \* history: what the request has caused, and how often complete was called
     nch |-> 0, nwr |-> 0, nmail |-> 0, calls |-> 0, ncb |-> 0]

\* the callback of the request is invoked with (status, res)
\* the local variables of the callbacks go out of scope with the request
Ended(r, pc) ==
    [r EXCEPT !.pc = pc, !.payload = Idle.payload, !.ids = {},
              !.cartItems = EmptyMap, !.itemId = "", !.quantity = NoTime,
              !.toDelete = {}, !.deletionErrors = FALSE,
              !.pendOrder = NoOrder,
              !.pendUser = NoUser, !.amount = 0, !.ost = NullStatus]

Done(r, status, res) ==
    [Ended(r, "done") EXCEPT !.status = status, !.res = res, !.ncb = @ + 1]

Hung(r) == Ended(r, "hung")

Thrown(r) == Ended(r, "thrown")

\* request slots are taken in order; Quiet: no request is in flight
CanStart(p) ==
    /\ req[p].pc = "idle"
    /\ \A q \in Procs : q < p => req[q].pc # "idle"

Quiet == \A q \in Procs : req[q].pc \in {"idle", "done", "hung", "thrown"}

(***************************************************************************)
(* Item.list and Item.hashmap: dataStore.list, then one dataStore.read per *)
(* name listed; the callback is invoked once every read has succeeded.     *)
(* The reads of one listing are taken together as one step.                *)
(***************************************************************************)
\* every item listed is read: Item.list / Item.hashmap call back
AllRead(ids) == ids \subseteq DOMAIN items

\* the hashmap built from the item documents read
Hashmap(ids) == [i \in ids |-> ItemUnitPrice(items[i])]

(***************************************************************************)
(* User.put as called by checkout (its steps follow with User.checkout).   *)
(***************************************************************************)
UserPutEntry(r, payload) ==
    IF ~isValidEmail(Get(payload, "email", NoEmail))
    THEN Done(r, 400, "MissingField")
    ELSE IF ~isValidTokenId(r.tok)
    THEN Done(r, 403, "Unauthorized")
    ELSE [r EXCEPT !.payload = payload, !.pc = "uput_isValid"]

(***************************************************************************)
(* Order.prototype.complete: what follows its callback.                    *)
(***************************************************************************)
\* a callback of complete that goes on to step 8 whatever the status is
AfterCompleteAnyStatus(r, status, res) ==
    IF r.op = "checkout"
    THEN LET user == [r.user EXCEPT !.orders = Append(@, r.order.id),
                                    !.cart = EmptyMap]
         IN UserPutEntry([r EXCEPT !.user = user],
                         [email |-> user.email, cart |-> user.cart,
                          orders |-> user.orders])
    ELSE Done(r, status, res)

\* a callback of complete that reports the payment before step 8 and again
\* after the user was written
AfterCompleteTwice(r, status, res) ==
    IF r.op = "checkout" /\ status = 200
    THEN LET user == [r.user EXCEPT !.orders = Append(@, r.order.id),
                                    !.cart = EmptyMap]
         IN UserPutEntry([r EXCEPT !.user = user, !.ncb = @ + 1],
                         [email |-> user.email, cart |-> user.cart,
                          orders |-> user.orders])
    ELSE Done(r, status, res)

\* the callback complete was given is invoked with (status, res)
AfterComplete(r, status, res) ==
    IF r.op = "checkout" /\ status = 200
    THEN \* 8. Update the user's orders list
         LET user == [r.user EXCEPT !.orders = Append(@, r.order.id),
                                    !.cart = EmptyMap]
         IN UserPutEntry([r EXCEPT !.user = user],
                         [email |-> user.email, cart |-> user.cart,
                          orders |-> user.orders])
    ELSE Done(r, status, res)

\* complete(options, callback) is called on the instance r.order
CompleteEntry(r) ==
    IF AlreadyCompleted(r.order)
    THEN AfterComplete(r, 200, "AlreadyCompleted")
    ELSE [r EXCEPT !.pc = "cmp_list"]

\* the callback Order.post was given is invoked with (status, orderData)
AfterOrderPost(r, status, res, t) ==
    IF r.op = "checkout" /\ status = 200
    THEN CompleteEntry([r EXCEPT !.order = OrderNew(r.pendOrder, t)])
    ELSE Done(r, status, res)

\* the callback Order.put was given is invoked with (status, orderData)
AfterOrderPut(r, status) ==
    IF r.op \in {"checkout", "complete"}
    THEN [r EXCEPT !.ost = status, !.pc = "inv_list"]
    ELSE Done(r, status, IF status = 200 THEN "Order" ELSE "Error")

\* Order.put(data, callback): the code before Item.list
OrderPutEntry(r, payload) ==
    IF isValidOrderId(Get(payload, "id", NoId))
    THEN [r EXCEPT !.payload = payload, !.pc = "oput_list"]
    ELSE AfterOrderPut(r, 400)

(***************************************************************************)
(* Order.post                                                              *)
(***************************************************************************)
\* Order.post(data, callback): the code before Item.list
OrderPostEntry(r, payload, t) ==
    IF isValidEmail(Get(payload, "email", NoEmail))
    THEN [r EXCEPT !.payload = payload, !.pc = "post_list"]
    ELSE AfterOrderPost(r, 400, "MissingField", t)

\* a request POST /orders arrives
Order_post(p, payload) ==
    /\ CanStart(p)
    /\ req' = [req EXCEPT ![p] =
                 OrderPostEntry([req[p] EXCEPT !.op = "orderPost"], payload, now)]
    /\ UNCHANGED <<now, store, IDs, charges, mails, bg>>

\* Item.list: the callback of dataStore.list.  A failed listing makes
\* Item.list call back with (500, {Error}), and items.reduce throws; an
\* empty listing starts no read, and Item.list never calls back.
Order_post_list(p, ok) ==
    /\ req[p].pc = "post_list"
    /\ req' = [req EXCEPT ![p] =
                 IF ~ok THEN Thrown(@)
                 ELSE IF DOMAIN items = {} THEN Hung(@)
                 ELSE [@ EXCEPT !.ids = DOMAIN items, !.pc = "post_reads"]]
    /\ UNCHANGED <<now, store, IDs, charges, mails, bg>>

\* Item.list calls back with the items: the cart is filtered and the order
\* is built and handed to dataStore.create
Order_post_reads(p) ==
    /\ req[p].pc = "post_reads"
    /\ LET r == req[p]
           cartItems == FilterItems(Get(r.payload, "items", EmptyMap), r.ids)
           id == createUniqueId
           order == OrderNew([id |-> id, email |-> r.payload.email,
                              items |-> cartItems], now)
           \* in checkout the payload's items are the cart of the User instance
           r1 == IF r.op = "checkout"
                 THEN [r EXCEPT !.user.cart = cartItems] ELSE r
       IN IF ~AllRead(r.ids)
          THEN req' = [req EXCEPT ![p] = Hung(r)] /\ UNCHANGED IDs
          ELSE IF DOMAIN cartItems # {}
          THEN /\ IDs' = IDs \cup {id}
               /\ req' = [req EXCEPT ![p] =
                            [r1 EXCEPT !.pendOrder = order, !.pc = "post_create"]]
          ELSE /\ req' = [req EXCEPT ![p] = AfterOrderPost(r1, 400, "EmptyCart", now)]
               /\ UNCHANGED IDs
    /\ UNCHANGED <<now, store, charges, mails, bg>>

\* the callback of dataStore.create('orders', ...): the file is opened with
\* the flag wx, which fails when it exists
Order_post_create(p, ok) ==
    /\ req[p].pc = "post_create"
    /\ LET r == req[p]
           id == r.pendOrder.id
       IN IF ok /\ id \notin DOMAIN orders
          THEN /\ orders' = Put(orders, id, r.pendOrder)
               /\ req' = [req EXCEPT ![p] =
                            AfterOrderPost([r EXCEPT !.nwr = @ + 1], 200, "Order", now)]
          ELSE /\ req' = [req EXCEPT ![p] = AfterOrderPost(r, 500, "Error", now)]
               /\ UNCHANGED orders
    /\ UNCHANGED <<now, users, tokens, items, IDs, charges, mails, bg>>

(***************************************************************************)
(* Order.prototype.complete, makePayment, sendInvoice                      *)
(***************************************************************************)
\* complete is called on a new instance made from the stored order id
Order_complete(p, id) ==
    /\ CanStart(p)
    /\ id \in DOMAIN orders
    /\ req' = [req EXCEPT ![p] =
                 CompleteEntry([req[p] EXCEPT !.op = "complete",
                                              !.order = OrderNew(orders[id], now)])]
    /\ UNCHANGED <<now, store, IDs, charges, mails, bg>>

\* complete is called again on the instance, after it has called back
Order_complete_again(p) ==
    /\ req[p].op = "complete"
    /\ req[p].pc = "done"
    /\ req[p].calls < MaxCalls
    /\ req' = [req EXCEPT ![p] = CompleteEntry([req[p] EXCEPT !.calls = @ + 1])]
    /\ UNCHANGED <<now, store, IDs, charges, mails, bg>>

\* makePayment(options, callback) on the instance
makePayment(r) ==
    LET price == r.order.total
    IN IF IsNumber(price) /\ price > 0
       THEN [r EXCEPT !.amount = price * MinorUnits, !.pc = "cmp_pay"]
       ELSE AfterComplete(r, 400, "PaymentFailed")

\* Item.hashmap: the callback of dataStore.list.  After a failed listing
\* the hashmap is the error object, in which no item is found: total is 0.
Order_complete_list(p, ok) ==
    /\ req[p].pc = "cmp_list"
    /\ LET r == req[p]
           total == OrderTotal(r.order.items, EmptyMap)
       IN req' = [req EXCEPT ![p] =
                    IF ~ok
                    THEN IF PositiveTotal(total)
                         THEN makePayment([r EXCEPT !.order = OrderSetTotal(@, total)])
                         ELSE AfterComplete(r, 400, "EmptyOrder")
                    ELSE IF DOMAIN items = {} THEN Hung(r)
                    ELSE [r EXCEPT !.ids = DOMAIN items, !.pc = "cmp_reads"]]
    /\ UNCHANGED <<now, store, IDs, charges, mails, bg>>

\* Item.hashmap calls back with the items: 3.a. get total, 3. make payment
Order_complete_reads(p) ==
    /\ req[p].pc = "cmp_reads"
    /\ LET r == req[p]
           total == OrderTotal(r.order.items, Hashmap(r.ids))
       IN req' = [req EXCEPT ![p] =
                    IF ~AllRead(r.ids) THEN Hung(r)
                    ELSE IF PositiveTotal(total)
                    THEN makePayment([r EXCEPT !.order = OrderSetTotal(@, total)])
                    ELSE AfterComplete(r, 400, "EmptyOrder")]
    /\ UNCHANGED <<now, store, IDs, charges, mails, bg>>

\* a callback of makePayment that takes every answer that is no error for a
\* payment: the order is marked as paid and stored
Order_complete_pay_lenient(p, answer) ==
    /\ req[p].pc = "cmp_pay"
    /\ LET r == req[p]
           receipt == Len(charges) + 1
           paid == OrderSetCompletedOn([r.order EXCEPT !.paymentInfo = receipt], now)
       IN IF answer = "paid"
          THEN /\ charges' = Append(charges, [order |-> r.order.id,
                                              amount |-> r.amount, by |-> p])
               /\ req' = [req EXCEPT ![p] =
                            OrderPutEntry([r EXCEPT !.order = paid, !.nch = @ + 1],
                                          paid)]
          ELSE IF answer = "unpaid"
          THEN /\ req' = [req EXCEPT ![p] = OrderPutEntry([r EXCEPT !.order = paid], paid)]
               /\ UNCHANGED charges
          ELSE /\ req' = [req EXCEPT ![p] = AfterComplete(r, 400, "PaymentFailed")]
               /\ UNCHANGED charges
    /\ UNCHANGED <<now, store, IDs, mails, bg>>

\* the gateway answers the charge request: "paid" (a charge object that is
\* paid and succeeded), "unpaid" (another object) or "error" (helpers.ajax
\* calls back with an error).  A paid charge is recorded in charges.
Order_complete_pay(p, answer) ==
    /\ req[p].pc = "cmp_pay"
    /\ LET r == req[p]
           receipt == Len(charges) + 1
           paid == OrderSetCompletedOn([r.order EXCEPT !.paymentInfo = receipt], now)
       IN IF answer = "paid"
          THEN /\ charges' = Append(charges, [order |-> r.order.id,
                                              amount |-> r.amount, by |-> p])
               /\ req' = [req EXCEPT ![p] =
                            OrderPutEntry([r EXCEPT !.order = paid, !.nch = @ + 1],
                                          paid)]
          ELSE /\ req' = [req EXCEPT ![p] = AfterComplete(r, 400, "PaymentFailed")]
               /\ UNCHANGED charges
    /\ UNCHANGED <<now, store, IDs, mails, bg>>

\* sendInvoice: the callback of dataStore.list of Item.hashmap.  After a
\* failed listing sendInvoice calls back with (500, ...), which complete
\* takes for a status.
Order_invoice_list(p, ok) ==
    /\ req[p].pc = "inv_list"
    /\ req' = [req EXCEPT ![p] =
                 IF ~ok THEN AfterComplete(@, @.ost, "Receipt")
                 ELSE IF DOMAIN items = {} THEN Hung(@)
                 ELSE [@ EXCEPT !.ids = DOMAIN items, !.pc = "inv_reads"]]
    /\ UNCHANGED <<now, store, IDs, charges, mails, bg>>

\* sendInvoice: Item.hashmap calls back with the items and the mail is
\* built: item.name throws for an order item that is not in the hashmap
Order_invoice_reads(p) ==
    /\ req[p].pc = "inv_reads"
    /\ LET r == req[p]
       IN req' = [req EXCEPT ![p] =
                    IF ~AllRead(r.ids) THEN Hung(r)
                    ELSE IF \E itemId \in DOMAIN r.order.items : itemId \notin r.ids
                    THEN Thrown(r)
                    ELSE [r EXCEPT !.pc = "inv_mail"]]
    /\ UNCHANGED <<now, store, IDs, charges, mails, bg>>

\* a callback of sendInvoice that takes the payment back in the stored
\* order when the invoice was not sent
Order_invoice_mail_unwind(p, ok) ==
    /\ req[p].pc = "inv_mail"
    /\ LET r == req[p]
           id == r.order.id
       IN IF ok
          THEN /\ mails' = Append(mails, id)
               /\ req' = [req EXCEPT ![p] =
                            AfterComplete([r EXCEPT !.nmail = @ + 1],
                                          NullStatus, "Invoice")]
               /\ UNCHANGED orders
          ELSE /\ req' = [req EXCEPT ![p] = AfterComplete(r, r.ost, "Receipt")]
               /\ orders' = IF id \in DOMAIN orders
                            THEN [orders EXCEPT ![id].completedOn = NoTime,
                                                ![id].paymentInfo = NoPayment,
                                                ![id].total = 0]
                            ELSE orders
               /\ UNCHANGED mails
    /\ UNCHANGED <<now, users, tokens, items, IDs, charges, bg>>

\* the mail transport answers.  helpers.ajax calls back with (null, result)
\* when the request went through and with an error object otherwise; the
\* callback of complete reads its first argument as a status code.
Order_invoice_mail(p, ok) ==
    /\ req[p].pc = "inv_mail"
    /\ LET r == req[p]
       IN IF ok
          THEN /\ mails' = Append(mails, r.order.id)
               /\ req' = [req EXCEPT ![p] =
                            AfterComplete([r EXCEPT !.nmail = @ + 1],
                                          NullStatus, "Invoice")]
          ELSE /\ req' = [req EXCEPT ![p] = AfterComplete(r, r.ost, "Receipt")]
               /\ UNCHANGED mails
    /\ UNCHANGED <<now, store, IDs, charges, bg>>

(***************************************************************************)
(* Order.put                                                               *)
(***************************************************************************)
\* a request PUT /orders arrives
Order_put(p, payload) ==
    /\ CanStart(p)
    /\ req' = [req EXCEPT ![p] =
                 OrderPutEntry([req[p] EXCEPT !.op = "orderPut"], payload)]
    /\ UNCHANGED <<now, store, IDs, charges, mails, bg>>

\* Item.list: the callback of dataStore.list (as in Order.post)
Order_put_list(p, ok) ==
    /\ req[p].pc = "oput_list"
    /\ req' = [req EXCEPT ![p] =
                 IF ~ok THEN Thrown(@)
                 ELSE IF DOMAIN items = {} THEN Hung(@)
                 ELSE [@ EXCEPT !.ids = DOMAIN items, !.pc = "oput_reads"]]
    /\ UNCHANGED <<now, store, IDs, charges, mails, bg>>

\* Item.list calls back: the payload's items are filtered, and the order is
\* looked up unless nothing is sent to update
Order_put_reads(p) ==
    /\ req[p].pc = "oput_reads"
    /\ LET r == req[p]
           cartItems == FilterItems(Get(r.payload, "items", EmptyMap), r.ids)
           email == isValidEmail(Get(r.payload, "email", NoEmail))
           completedOn == Truthy(Get(r.payload, "completedOn", NoTime))
           paymentInfo == Get(r.payload, "paymentInfo", NoPayment) # NoPayment
           total == Get(r.payload, "total", 0)
       IN req' = [req EXCEPT ![p] =
                    IF ~AllRead(r.ids) THEN Hung(r)
                    ELSE IF email \/ completedOn \/ paymentInfo \/ total > 0
                            \/ DOMAIN cartItems # {}
                    THEN [r EXCEPT !.cartItems = cartItems, !.pc = "oput_read"]
                    ELSE AfterOrderPut(r, 400)]
    /\ UNCHANGED <<now, store, IDs, charges, mails, bg>>

\* an update that writes the filtered items of the payload even when none
\* is left
OrderPutMergeAlways(orderData, payload, cartItems) ==
    LET d1 == IF isValidEmail(Get(payload, "email", NoEmail))
              THEN [orderData EXCEPT !.email = payload.email] ELSE orderData
        d2 == IF Truthy(Get(payload, "completedOn", NoTime))
              THEN [d1 EXCEPT !.completedOn = payload.completedOn] ELSE d1
        d3 == IF Get(payload, "paymentInfo", NoPayment) # NoPayment
              THEN [d2 EXCEPT !.paymentInfo = payload.paymentInfo] ELSE d2
        d4 == IF Get(payload, "total", 0) # 0
              THEN [d3 EXCEPT !.total = payload.total] ELSE d3
    IN [d4 EXCEPT !.items = cartItems]

\* the fields of the payload written over the stored order document
OrderPutMerge(orderData, payload, cartItems) ==
    LET d1 == IF isValidEmail(Get(payload, "email", NoEmail))
              THEN [orderData EXCEPT !.email = payload.email] ELSE orderData
        d2 == IF Truthy(Get(payload, "completedOn", NoTime))
              THEN [d1 EXCEPT !.completedOn = payload.completedOn] ELSE d1
        d3 == IF Get(payload, "paymentInfo", NoPayment) # NoPayment
              THEN [d2 EXCEPT !.paymentInfo = payload.paymentInfo] ELSE d2
        d4 == IF Get(payload, "total", 0) # 0
              THEN [d3 EXCEPT !.total = payload.total] ELSE d3
    IN IF DOMAIN cartItems # {} THEN [d4 EXCEPT !.items = cartItems] ELSE d4

\* the callback of dataStore.read('orders', id): the fields are updated, a
\* new Order is made of them and handed to dataStore.update
Order_put_read(p) ==
    /\ req[p].pc = "oput_read"
    /\ LET r == req[p]
           id == r.payload.id
           order == OrderNew(OrderPutMerge(orders[id], r.payload, r.cartItems), now)
       IN req' = [req EXCEPT ![p] =
                    IF id \notin DOMAIN orders THEN AfterOrderPut(r, 400)
                    ELSE IF order.id = id
                    THEN [r EXCEPT !.pendOrder = order, !.pc = "oput_update"]
                    ELSE AfterOrderPut(r, 400)]
    /\ UNCHANGED <<now, store, IDs, charges, mails, bg>>

\* a callback of dataStore.update in Order.put that answers a write that
\* failed with 200 too
Order_put_update_quiet(p, ok) ==
    /\ req[p].pc = "oput_update"
    /\ LET r == req[p]
           id == r.pendOrder.id
       IN IF ok /\ id \in DOMAIN orders
          THEN /\ orders' = Put(orders, id, r.pendOrder)
               /\ req' = [req EXCEPT ![p] =
                            AfterOrderPut([r EXCEPT !.nwr = @ + 1], 200)]
          ELSE /\ req' = [req EXCEPT ![p] = AfterOrderPut(r, 200)]
               /\ UNCHANGED orders
    /\ UNCHANGED <<now, users, tokens, items, IDs, charges, mails, bg>>

\* the callback of dataStore.update('orders', id, ...): the file is opened
\* with the flag r+, which fails when it does not exist
Order_put_update(p, ok) ==
    /\ req[p].pc = "oput_update"
    /\ LET r == req[p]
           id == r.pendOrder.id
       IN IF ok /\ id \in DOMAIN orders
          THEN /\ orders' = Put(orders, id, r.pendOrder)
               /\ req' = [req EXCEPT ![p] =
                            AfterOrderPut([r EXCEPT !.nwr = @ + 1], 200)]
          ELSE /\ req' = [req EXCEPT ![p] = AfterOrderPut(r, 500)]
               /\ UNCHANGED orders
    /\ UNCHANGED <<now, users, tokens, items, IDs, charges, mails, bg>>

(***************************************************************************)
(* The environment: the clock, and the catalog (Item.put and Item.delete   *)
(* are not exposed over the REST API; each is taken as one step).          *)
(***************************************************************************)
Tick ==
    /\ now < MaxClock
    /\ now' = now + 1
    /\ UNCHANGED <<store, IDs, charges, mails, req, bg>>

\* Item.put with a valid unitPrice, on an item that exists
Item_put(id, unitPrice) ==
    /\ id \in DOMAIN items
    /\ isValidPrice(unitPrice)
    /\ items[id] # unitPrice
    /\ items' = [items EXCEPT ![id] = unitPrice]
    /\ UNCHANGED <<now, users, tokens, orders, IDs, charges, mails, req, bg>>

\* Item.delete of an item that exists
Item_delete(id) ==
    /\ id \in DOMAIN items
    /\ items' = Drop(items, id)
    /\ UNCHANGED <<now, users, tokens, orders, IDs, charges, mails, req, bg>>

(***************************************************************************)
(* Token: the fire-and-forget tasks.  token.extend() is Token.put with      *)
(* extend: true and token.delete() is Token.delete, both without callback. *)
(* A task is in bg from the call until its last callback has run.          *)
(***************************************************************************)
\* email and exp: the owner and the expiration of the token object a task
\* has made of the document it has read
ExtendTask(id) ==
    [kind |-> "extend", id |-> id, pc |-> "read", email |-> NoEmail, exp |-> NoTime]

DeleteTask(id) ==
    [kind |-> "delete", id |-> id, pc |-> "read", email |-> NoEmail, exp |-> NoTime]

Spawn(b, task) == b (+) SetToBag({task})

Retire(b, task) == b (-) SetToBag({task})

\* a token file that holds no data: dataStore.update has truncated it and
\* has not written it yet
EmptyFile == [id |-> "", email |-> NoEmail, expiration |-> NoTime]

\* dataStore.read calls back with a document (!err && data): the file is
\* there and holds data
Readable(m, k) == k \in DOMAIN m /\ m[k] # EmptyFile

\* Token.prototype.isValid: the callback of dataStore.read('tokens', id)
TokenIsValid(id) == Readable(tokens, id) /\ TokenCheck(tokens[id], id, now)

\* the tasks in flight once isValid has called back and the caller, when the
\* token is valid, has called token.extend(): an invalid token that was
\* read is deleted
AfterIsValid(id) ==
    IF TokenIsValid(id) THEN Spawn(bg, ExtendTask(id))
    ELSE IF Readable(tokens, id) THEN Spawn(bg, DeleteTask(id))
    ELSE bg

\* an extension that keeps the expiration it has read
Token_put_read_keep(task) ==
    /\ task.kind = "extend" /\ task.pc = "read"
    /\ bg' = IF ~Readable(tokens, task.id) THEN Retire(bg, task)
             ELSE IF tokens[task.id].expiration > now
             THEN Spawn(Retire(bg, task),
                        [task EXCEPT !.pc = "update",
                                     !.email = tokens[task.id].email,
                                     !.exp = tokens[task.id].expiration])
             ELSE Spawn(Retire(bg, task), [task EXCEPT !.pc = "unlink"])
    /\ UNCHANGED <<now, store, IDs, charges, mails, req>>

\* Token.put: the callback of dataStore.read
Token_put_read(task) ==
    /\ task.kind = "extend" /\ task.pc = "read"
    /\ bg' = IF ~Readable(tokens, task.id) THEN Retire(bg, task)
             ELSE IF tokens[task.id].expiration > now
             THEN Spawn(Retire(bg, task),
                        [task EXCEPT !.pc = "update",
                                     !.email = tokens[task.id].email,
                                     !.exp = now + TokenTTL])
             ELSE Spawn(Retire(bg, task), [task EXCEPT !.pc = "unlink"])
    /\ UNCHANGED <<now, store, IDs, charges, mails, req>>

\* Token.put: dataStore.update writes the new expiration (the file is
\* opened with the flag r+, which fails when it does not exist)
Token_put_update(task) ==
    /\ task.kind = "extend" /\ task.pc = "update"
    /\ tokens' = IF task.id \in DOMAIN tokens
                 THEN [tokens EXCEPT ![task.id].expiration = task.exp]
                 ELSE tokens
    /\ bg' = Retire(bg, task)
    /\ UNCHANGED <<now, users, orders, items, IDs, charges, mails, req>>

\* Token.delete: the callback of dataStore.read
Token_delete_read(task) ==
    /\ task.kind = "delete" /\ task.pc = "read"
    /\ bg' = IF Readable(tokens, task.id)
             THEN Spawn(Retire(bg, task), [task EXCEPT !.pc = "unlink"])
             ELSE Retire(bg, task)
    /\ UNCHANGED <<now, store, IDs, charges, mails, req>>

\* Token.put and Token.delete: dataStore.delete unlinks the token file
Token_unlink(task) ==
    /\ task.pc = "unlink"
    /\ tokens' = IF task.id \in DOMAIN tokens THEN Drop(tokens, task.id) ELSE tokens
    /\ bg' = Retire(bg, task)
    /\ UNCHANGED <<now, users, orders, items, IDs, charges, mails, req>>

TokenTasks ==
    \E task \in BagToSet(bg) :
        \/ Token_put_read(task)
        \/ Token_put_update(task)
        \/ Token_delete_read(task)
        \/ Token_unlink(task)

(***************************************************************************)
(* User.checkout, with User.get and User.put as it calls them.             *)
(***************************************************************************)
\* a request POST /users/checkout arrives: 1. and 2. of checkout
User_checkout(p, email, tok) ==
    /\ CanStart(p)
    /\ LET r == [req[p] EXCEPT !.op = "checkout", !.email = email, !.tok = tok]
       IN req' = [req EXCEPT ![p] =
                    IF ~isValidEmail(email) THEN Done(r, 400, "MissingField")
                    ELSE IF ~isValidTokenId(tok) THEN Done(r, 403, "Unauthorized")
                    ELSE [r EXCEPT !.pc = "co_isValid"]]
    /\ UNCHANGED <<now, store, IDs, charges, mails, bg>>

\* 3. of checkout: token.isValid calls back; 4. User.get is called, which
\* starts its own token.isValid, and the token is extended
User_checkout_isValid(p) ==
    /\ req[p].pc = "co_isValid"
    /\ req' = [req EXCEPT ![p] =
                 IF TokenIsValid(@.tok) THEN [@ EXCEPT !.pc = "get_isValid"]
                 ELSE Done(@, 403, "Unauthorized")]
    /\ bg' = AfterIsValid(req[p].tok)
    /\ UNCHANGED <<now, store, IDs, charges, mails>>

\* User.get: token.isValid calls back; the user is looked up
User_get_isValid(p) ==
    /\ req[p].pc = "get_isValid"
    /\ req' = [req EXCEPT ![p] =
                 IF TokenIsValid(@.tok) THEN [@ EXCEPT !.pc = "get_read"]
                 ELSE Done(@, 403, "Unauthorized")]
    /\ bg' = AfterIsValid(req[p].tok)
    /\ UNCHANGED <<now, store, IDs, charges, mails>>

\* User.addToCart: the quantity of the payload, 0 unless it is a number > 0
CartQuantity(value) == IF isValidPrice(value) THEN value ELSE 0

\* a cart update that adds the quantity to the one the cart holds
AddToCartUpdateAdding(r, user) ==
    IF user.email = r.email
    THEN UserPutEntry([r EXCEPT !.user = user],
                      [email |-> user.email,
                       cart  |-> IF CartQuantity(r.quantity) > 0
                                 THEN Put(user.cart, r.itemId,
                                          Get(user.cart, r.itemId, 0)
                                          + CartQuantity(r.quantity))
                                 ELSE Drop(user.cart, r.itemId)])
    ELSE Done(r, 400, "Error")

\* User.addToCart: the callback of User.get with (200, userData): the cart
\* entry is set or deleted and User.put is called with the cart
AddToCartUpdate(r, user) ==
    IF user.email = r.email
    THEN UserPutEntry([r EXCEPT !.user = user],
                      [email |-> user.email,
                       cart  |-> IF CartQuantity(r.quantity) > 0
                                 THEN Put(user.cart, r.itemId,
                                          CartQuantity(r.quantity))
                                 ELSE Drop(user.cart, r.itemId)])
    ELSE Done(r, 400, "Error")

\* User.get: the callback of dataStore.read('users', email); 5. and 6. of
\* checkout: Order.post is called with the user's cart
User_get_read(p) ==
    /\ req[p].pc = "get_read"
    /\ LET r == req[p]
           user == UserNew(users[r.email])
       IN req' = [req EXCEPT ![p] =
                    IF r.email \notin DOMAIN users THEN Done(r, 404, "NotFound")
                    ELSE IF r.op \in {"addToCart", "removeFromCart"}
                    THEN AddToCartUpdate(r, user)
                    ELSE IF DOMAIN user.cart = {} THEN Done(r, 403, "EmptyCart")
                    ELSE OrderPostEntry([r EXCEPT !.user = user],
                                        [email |-> user.email, items |-> user.cart],
                                        now)]
    /\ UNCHANGED <<now, store, IDs, charges, mails, bg>>

\* User.put: token.isValid calls back; the user is looked up
User_put_isValid(p) ==
    /\ req[p].pc = "uput_isValid"
    /\ req' = [req EXCEPT ![p] =
                 IF TokenIsValid(@.tok) THEN [@ EXCEPT !.pc = "uput_read"]
                 ELSE Done(@, 403, "Unauthorized")]
    /\ bg' = IF TokenIsValid(req[p].tok) THEN bg ELSE AfterIsValid(req[p].tok)
    /\ UNCHANGED <<now, store, IDs, charges, mails>>

\* User.put: the callback of dataStore.read('users', email): the cart and
\* the orders of the payload are written over the document, a new User is
\* made of it and handed to dataStore.update, and the token is extended
User_put_read(p) ==
    /\ req[p].pc = "uput_read"
    /\ LET r == req[p]
           email == r.payload.email
           user == UserNew([users[email] EXCEPT
                              !.cart = Get(r.payload, "cart", @),
                              !.orders = Get(r.payload, "orders", @)])
       IN IF email \notin DOMAIN users
          THEN /\ req' = [req EXCEPT ![p] = Done(r, 400, "NotFound")]
               /\ UNCHANGED bg
          ELSE /\ req' = [req EXCEPT ![p] =
                            IF user.email = email
                            THEN [r EXCEPT !.pendUser = user, !.pc = "uput_update"]
                            ELSE Done(r, 400, "Error")]
               /\ bg' = Spawn(bg, ExtendTask(r.tok))
    /\ UNCHANGED <<now, store, IDs, charges, mails>>

\* a callback of dataStore.update that reports a failed write as a success
User_put_update_quiet(p, ok) ==
    /\ req[p].pc = "uput_update"
    /\ LET r == req[p]
           email == r.pendUser.email
       IN IF ok /\ email \in DOMAIN users
          THEN /\ users' = Put(users, email, r.pendUser)
               /\ req' = [req EXCEPT ![p] = Done(r, 200, "Payment")]
          ELSE /\ req' = [req EXCEPT ![p] = Done(r, 200, "Payment")]
               /\ UNCHANGED users
    /\ UNCHANGED <<now, tokens, orders, items, IDs, charges, mails, bg>>

\* a callback of an update that opens the file with a flag that creates it
\* when it is missing
User_put_update_upsert(p, ok) ==
    /\ req[p].pc = "uput_update"
    /\ LET r == req[p]
           email == r.pendUser.email
       IN IF ok
          THEN /\ users' = Put(users, email, r.pendUser)
               /\ req' = [req EXCEPT ![p] =
                            Done(r, 200, IF r.op = "checkout" THEN "Payment"
                                         ELSE "User")]
          ELSE /\ req' = [req EXCEPT ![p] = Done(r, 500, "Error")]
               /\ UNCHANGED users
    /\ UNCHANGED <<now, tokens, orders, items, IDs, charges, mails, bg>>

\* User.put: the callback of dataStore.update('users', email, ...); the
\* callback of checkout is invoked with the status
User_put_update(p, ok) ==
    /\ req[p].pc = "uput_update"
    /\ LET r == req[p]
           email == r.pendUser.email
       IN IF ok /\ email \in DOMAIN users
          THEN /\ users' = Put(users, email, r.pendUser)
               /\ req' = [req EXCEPT ![p] =
                            Done(r, 200, IF r.op = "checkout" THEN "Payment"
                                         ELSE "User")]
          ELSE /\ req' = [req EXCEPT ![p] = Done(r, 500, "Error")]
               /\ UNCHANGED users
    /\ UNCHANGED <<now, tokens, orders, items, IDs, charges, mails, bg>>

(***************************************************************************)
(* server.unifiedServer: the status code of the response, for the status   *)
(* the handler called back with.                                           *)
(***************************************************************************)
StatusCode(status) == IF status = NullStatus THEN 200 ELSE status

(***************************************************************************)
(* Inputs of the requests.                                                 *)
(***************************************************************************)
\* item -> quantity objects a client may send, and a cart may hold
ItemMaps == UNION {[S -> Quantities] : S \in SUBSET ItemIds}

\* what the gateway may answer
Answers == {"paid", "unpaid", "error"}

\* payloads of POST /orders
PostPayloads == {[email |-> e, items |-> m] : e \in {"u1", BadEmail}, m \in ItemMaps}

\* payloads of PUT /orders for order id: a completion date, a total, a
\* payment info, items, an owner, or nothing to update
PutPayloads(id) ==
    {[id |-> id, completedOn |-> c] : c \in 0..MaxClock}
    \cup {[id |-> id, total |-> t] : t \in {-1, 7}}
    \cup {[id |-> id, paymentInfo |-> ForgedPayment],
          [id |-> id, email |-> "u2"],
          [id |-> id, items |-> [i \in {"B"} |-> 2]],
          [id |-> id]}

(***************************************************************************)
(* The initial state: the catalog holds both items, every user has logged  *)
(* in once, and no request has arrived.                                    *)
(***************************************************************************)
InitCatalog == [i \in ItemIds |-> IF i = "A" THEN 10 ELSE 5]

InitCommon ==
    /\ now = 2
    /\ items = InitCatalog
    /\ req = [p \in Procs |-> Idle]
    /\ bg = EmptyBag

\* the order document Order.post stores at time 2 for the items m
PostedOrder(id, m) == OrderNew([id |-> id, email |-> "u1", items |-> m], 2)

\* the order document after complete has charged the order (the first
\* charge of the gateway) and Order.put has stored it, all at time 2
CompletedOrder(id, m) ==
    [PostedOrder(id, m) EXCEPT !.completedOn = 2, !.paymentInfo = 1,
                               !.total = OrderTotal(m, InitCatalog)]

\* orders: one order has been posted, for any non-empty items of the
\* catalog; it is not completed yet, or it was completed by an earlier
\* request (request 0), which charged it and mailed the invoice
InitOrders ==
    /\ InitCommon
    /\ users = EmptyMap
    /\ tokens = EmptyMap
    /\ IDs = {1}
    /\ \E m \in ItemMaps \ {EmptyMap} :
          \/ /\ orders = [id \in {1} |-> PostedOrder(1, m)]
             /\ charges = <<>>
             /\ mails = <<>>
          \/ /\ PositiveTotal(OrderTotal(m, InitCatalog))
             /\ orders = [id \in {1} |-> CompletedOrder(1, m)]
             /\ charges = <<[order |-> 1, by |-> 0,
                             amount |-> OrderTotal(m, InitCatalog) * MinorUnits]>>
             /\ mails = <<1>>

\* the carts a user may have put together: positive quantities of items
Carts == {m \in ItemMaps : m # EmptyMap /\ \A k \in DOMAIN m : m[k] > 0}

\* the token document Token.post stores at a login at time t
IssuedToken(id, email, t) == [id |-> id, email |-> email, expiration |-> t + TokenTTL]

\* the shop: both users have filled their carts and no order was placed;
\* the token t1 was issued to u1 at one of the times given, t2 to u2 now
InitShop(issued) ==
    /\ InitCommon
    /\ \E c \in Carts :
          users = [e \in Emails |->
                     [email |-> e, orders |-> <<>>,
                      cart |-> IF e = "u1" THEN c ELSE [i \in {"B"} |-> 1]]]
    /\ \E t \in issued :
          tokens = [id \in TokenIds |->
                      IF id = "t1" THEN IssuedToken(id, "u1", t)
                      ELSE IssuedToken(id, "u2", 2)]
    /\ orders = EmptyMap
    /\ IDs = {}
    /\ charges = <<>>
    /\ mails = <<>>

(***************************************************************************)
(* The steps of the requests on orders.                                    *)
(***************************************************************************)
PostStep(p) ==
    \/ \E ok \in BOOLEAN : Order_post_list(p, ok)
    \/ Order_post_reads(p)
    \/ \E ok \in BOOLEAN : Order_post_create(p, ok)

CompleteStep(p) ==
    \/ \E ok \in BOOLEAN : Order_complete_list(p, ok)
    \/ Order_complete_reads(p)
    \/ \E answer \in Answers : Order_complete_pay(p, answer)
    \/ \E ok \in BOOLEAN : Order_invoice_list(p, ok)
    \/ Order_invoice_reads(p)
    \/ \E ok \in BOOLEAN : Order_invoice_mail(p, ok)

\* the steps of a checkout; oks: how the store may answer, answers: what
\* the gateway may answer, sent: how the mail transport may answer
CheckoutStep(p, oks, answers, sent) ==
    \/ User_checkout_isValid(p)
    \/ User_get_isValid(p)
    \/ User_get_read(p)
    \/ \E ok \in oks : Order_post_list(p, ok)
    \/ Order_post_reads(p)
    \/ \E ok \in oks : Order_post_create(p, ok)
    \/ \E ok \in oks : Order_complete_list(p, ok)
    \/ Order_complete_reads(p)
    \/ \E answer \in answers : Order_complete_pay(p, answer)
    \/ \E ok \in oks : Order_put_list(p, ok)
    \/ Order_put_reads(p)
    \/ Order_put_read(p)
    \/ \E ok \in oks : Order_put_update(p, ok)
    \/ \E ok \in oks : Order_invoice_list(p, ok)
    \/ Order_invoice_reads(p)
    \/ \E ok \in sent : Order_invoice_mail(p, ok)
    \/ User_put_isValid(p)
    \/ User_put_read(p)
    \/ \E ok \in oks : User_put_update(p, ok)

\* the token tasks that extend a token that has not expired
ExtendTasks ==
    \E task \in BagToSet(bg) : Token_put_read(task) \/ Token_put_update(task)

PutStep(p) ==
    \/ \E ok \in BOOLEAN : Order_put_list(p, ok)
    \/ Order_put_reads(p)
    \/ Order_put_read(p)
    \/ \E ok \in BOOLEAN : Order_put_update(p, ok)

Environment ==
    \/ Tick
    \/ \E id \in ItemIds, unitPrice \in Prices : Item_put(id, unitPrice)
    \/ \E id \in ItemIds : Item_delete(id)

(***************************************************************************)
(* OrderSpec: one request on orders, an Order.post or a complete that may  *)
(* be called again on its instance, while the catalog changes.             *)
(***************************************************************************)
Single == {1}

OrderNext ==
    \/ \E p \in Single :
          \/ \E payload \in PostPayloads : Order_post(p, payload)
          \/ \E id \in DOMAIN orders : Order_complete(p, id)
          \/ Order_complete_again(p)
          \/ PostStep(p)
          \/ CompleteStep(p)
          \/ PutStep(p)
    \/ Environment

OrderSpec == InitOrders /\ [][OrderNext]_vars

(***************************************************************************)
(* UpdateSpec: requests on the stored order that arrive one after the      *)
(* other, each a complete or a PUT /orders.                                *)
(***************************************************************************)
UpdateNext ==
    \/ \E p \in Procs :
          \/ Quiet /\ \E id \in DOMAIN orders : Order_complete(p, id)
          \/ Quiet /\ \E id \in DOMAIN orders :
                         \E payload \in PutPayloads(id) : Order_put(p, payload)
          \/ CompleteStep(p)
          \/ PutStep(p)
    \/ Tick

UpdateSpec == InitOrders /\ [][UpdateNext]_vars

(***************************************************************************)
(* CheckoutSpec: checkouts of u1 one after the other, with either token;   *)
(* the store answers every request with success, the gateway and the mail  *)
(* transport answer as they like.                                          *)
(***************************************************************************)
CheckoutNext ==
    \/ \E p \in Procs :
          \/ Quiet /\ \E tok \in TokenIds : User_checkout(p, "u1", tok)
          \/ CheckoutStep(p, {TRUE}, Answers, BOOLEAN)
    \/ ExtendTasks
    \/ Tick

CheckoutSpec == InitShop({2}) /\ [][CheckoutNext]_vars

(***************************************************************************)
(* ExpirySpec: one checkout of u1 with the token t1, which was issued at   *)
(* time 0, 1 or 2 and expires an hour later; any request to the store, the *)
(* gateway or the mail transport may fail.  Node runs the callback of      *)
(* every I/O operation that was started: the token tasks are fair.         *)
(***************************************************************************)
ExpiryNext ==
    \/ \E p \in Single :
          \/ User_checkout(p, "u1", "t1")
          \/ CheckoutStep(p, BOOLEAN, Answers, BOOLEAN)
    \/ TokenTasks
    \/ Tick

ExpirySpec ==
    InitShop(0..2) /\ [][ExpiryNext]_vars /\ WF_vars(TokenTasks)

(***************************************************************************)
(* Properties of Order.prototype.complete and Order.post (OrderSpec).      *)
(***************************************************************************)
\* the sum, over the items of an order that the catalog holds, of the unit
\* price times the quantity, written out for the two items of the model
ExpectedLine(orderItems, catalog, i) ==
    IF i \in DOMAIN orderItems /\ i \in DOMAIN catalog
    THEN catalog[i] * orderItems[i] ELSE 0

ExpectedTotal(orderItems, catalog) ==
    ExpectedLine(orderItems, catalog, "A") + ExpectedLine(orderItems, catalog, "B")

\* the catalog a request reads in its next step: the items it has listed
CatalogRead(r) == [i \in r.ids \cap DOMAIN items |-> items[i]]

\* C1: once the completedOn of an order is set, with createdOn <= completedOn,
\* every later call of complete on it calls back with success (200) and
\* causes no charge, no change of the order's total, no write of the order
\* record and no invoice mail.
C1_Step(p) ==
    LET r == req[p]
        r2 == req'[p]
        \* complete is called on the instance r.order after it has called back
        again == r.op = "complete" /\ r.pc = "done" /\ r2.calls = r.calls + 1
        \* complete is called on a new instance of the stored order
        first == r.pc = "idle" /\ r2.op = "complete"
        order == IF first THEN r2.order ELSE r.order
    IN (/\ first \/ again
        /\ order.completedOn # NoTime
        /\ order.createdOn <= order.completedOn)
       => /\ r2.pc = "done" /\ r2.status = 200 /\ r2.res = "AlreadyCompleted"
          /\ r2.ncb = r.ncb + 1
          /\ charges' = charges /\ r2.nch = r.nch
          /\ r2.order = order
          /\ orders' = orders /\ r2.nwr = r.nwr
          /\ mails' = mails /\ r2.nmail = r.nmail

\* C1 for every step of every request
C1_CompletedOrderIsNotChargedAgain == [][\A p \in Procs : C1_Step(p)]_vars

\* C1 witness: complete was called again on an instance that was charged
\* once, and called back with "already completed"; there is one charge
C1_Witness ==
    \E p \in Procs :
        /\ req[p].op = "complete" /\ req[p].pc = "done" /\ req[p].calls > 0
        /\ req[p].res = "AlreadyCompleted" /\ req[p].status = 200
        /\ req[p].nch = 1 /\ Len(charges) = 1
        /\ req[p].order.completedOn >= req[p].order.createdOn

\* C3: when the charge succeeded and the updated order was persisted,
\* complete calls back with status 200 whether the invoice was sent or not.
C3_InvoiceOutcomeKeepsStatus ==
    \A p \in Procs :
        (/\ req[p].op = "complete" /\ req[p].pc = "done"
         /\ req[p].res \in {"Invoice", "Receipt"}
         /\ req[p].nch > 0 /\ req[p].nwr > 0)
        => req[p].status = 200

\* C5: complete computes total as the sum, over the order's items present
\* in the catalog it reads, of unitPrice * quantity, stores it as the order's
\* total and charges the gateway total * 100; items {A: 2, B: 1} at prices
\* A = 10, B = 5 give total 25 and a charge of 2500.
C5_Step(p) ==
    LET r == req[p]
        r2 == req'[p]
        expected == ExpectedTotal(r.order.items, CatalogRead(r))
        id == r.order.id
    IN /\ (/\ r.pc = "cmp_reads" /\ r2 # r
           /\ r.ids \subseteq DOMAIN items /\ expected > 0)
          => /\ r2.pc = "cmp_pay"
             /\ r2.order.total = expected
             /\ r2.amount = expected * 100
       /\ (/\ r.pc = "cmp_reads" /\ r2 # r /\ r.ids = {"A", "B"}
           /\ items = [i \in {"A", "B"} |-> IF i = "A" THEN 10 ELSE 5]
           /\ r.order.items = [i \in {"A", "B"} |-> IF i = "A" THEN 2 ELSE 1])
          => r2.order.total = 25 /\ r2.amount = 2500
       /\ (r.pc = "cmp_pay")
          => \/ charges' = charges
             \/ /\ charges' = Append(charges, [order |-> id, by |-> p,
                                               amount |-> r.order.total * 100])
                /\ r2.order.total = r.order.total
       /\ (r.op = "complete" /\ r.pc = "oput_update" /\ orders' # orders)
          => /\ orders'[id].total = r.order.total
             /\ \A i \in 1..Len(charges) :
                   charges[i].order = id => charges[i].amount = orders'[id].total * 100

\* C5 for every step of every request
C5_TotalIsCatalogSumAndCharged == [][\A p \in Procs : C5_Step(p)]_vars

\* C5 witness: the order of items {A: 2, B: 1} was charged 2500 and is
\* stored with total 25
C5_Witness ==
    \E id \in DOMAIN orders :
        /\ orders[id].items = [i \in {"A", "B"} |-> IF i = "A" THEN 2 ELSE 1]
        /\ orders[id].total = 25
        /\ charges = <<[order |-> id, by |-> 1, amount |-> 2500]>>

\* C6: if the total complete computes is not strictly positive, complete
\* fails with the EmptyOrder error (status 400), does not invoke the payment
\* gateway and leaves the persisted order uncompleted.
C6_Step(p) ==
    LET r == req[p]
        r2 == req'[p]
        id == r2.order.id
        failed == /\ r2.pc = "done" /\ r2.status = 400 /\ r2.res = "EmptyOrder"
                  /\ r2.ncb = r.ncb + 1
                  /\ charges' = charges /\ r2.nch = r.nch
                  /\ orders' = orders /\ r2.order = r.order
    IN /\ (/\ r.pc = "cmp_reads" /\ r2 # r /\ r.ids \subseteq DOMAIN items
           /\ ExpectedTotal(r.order.items, CatalogRead(r)) <= 0)
          => failed
       \* the listing failed: no item of the order is found
       /\ (r.pc = "cmp_list" /\ r2 # r /\ r2.pc \notin {"cmp_reads", "hung"})
          => failed
       /\ (r2.op = "complete" /\ r2.pc = "done" /\ r2.res = "EmptyOrder")
          => /\ r2.status = 400
             /\ r2.nch = 0
             /\ \A i \in 1..Len(charges') : charges'[i].order # id
             /\ orders'[id].completedOn = NoTime
             /\ orders'[id].paymentInfo = NoPayment

\* C6 for every step of every request
C6_NoPositiveTotalNoCharge == [][\A p \in Procs : C6_Step(p)]_vars

\* C6 witness: complete of an order that has items called back with
\* EmptyOrder; nothing was charged and the stored order is not completed
C6_Witness ==
    \E p \in Procs :
        /\ req[p].op = "complete" /\ req[p].pc = "done"
        /\ req[p].res = "EmptyOrder" /\ req[p].status = 400
        /\ DOMAIN req[p].order.items # {}
        /\ charges = <<>>
        /\ orders[req[p].order.id].completedOn = NoTime

\* C7: Order.post keeps exactly the requested items whose id is in the
\* current catalog, quantities unchanged, and drops every other key; if a
\* key remains a new order record is persisted with total 0 and no
\* completedOn, and if none remains it fails with status 400 and persists
\* no order record.
C7_Step(p) ==
    LET r == req[p]
        r2 == req'[p]
        requested == Get(r.payload, "items", EmptyMap)
        kept == DOMAIN requested \cap DOMAIN items
        new == r.pendOrder
    IN /\ (/\ r.op = "orderPost" /\ r.pc = "post_reads" /\ r2 # r
           /\ r.ids \subseteq DOMAIN items)
          => IF kept # {}
             THEN /\ r2.pc = "post_create"
                  /\ DOMAIN r2.pendOrder.items = kept
                  /\ \A k \in kept : r2.pendOrder.items[k] = requested[k]
                  /\ r2.pendOrder.total = 0
                  /\ r2.pendOrder.completedOn = NoTime
                  /\ r2.pendOrder.id \notin DOMAIN orders
                  /\ orders' = orders
             ELSE /\ r2.pc = "done" /\ r2.status = 400 /\ r2.res = "EmptyCart"
                  /\ r2.nwr = 0
                  /\ orders' = orders
       /\ (r.op = "orderPost" /\ r.pc = "post_create" /\ r2 # r)
          => \/ /\ r2.pc = "done" /\ r2.status = 200
                /\ new.id \notin DOMAIN orders
                /\ DOMAIN orders' = DOMAIN orders \cup {new.id}
                /\ orders'[new.id] = new
                /\ \A id \in DOMAIN orders : orders'[id] = orders[id]
             \* dataStore.create fails
             \/ /\ r2.pc = "done" /\ r2.status = 500
                /\ orders' = orders

\* C7 for every step of every request
C7_PostKeepsCatalogItems == [][\A p \in Procs : C7_Step(p)]_vars

\* C7 witness: of the requested items A and B only A was in the catalog;
\* the order of A alone is about to be stored, and is stored
C7_Witness ==
    \E p \in Procs :
        /\ req[p].op = "orderPost" /\ req[p].pc = "done" /\ req[p].status = 200
        /\ DOMAIN items = {"A"}
        /\ \E id \in DOMAIN orders \ {1} :
              /\ DOMAIN orders[id].items = {"A"}
              /\ orders[id].total = 0
              /\ orders[id].completedOn = NoTime

(***************************************************************************)
(* Properties of the stored order under updates (UpdateSpec).              *)
(***************************************************************************)
\* C10: completion is monotonic: once a persisted order has completedOn set,
\* no later operation on it (a further complete, or an update carrying a
\* forged completedOn) makes the persisted completedOn absent or smaller.
C10_CompletionIsMonotonic ==
    [][\A id \in DOMAIN orders :
          orders[id].completedOn # NoTime
          => /\ id \in DOMAIN orders'
             /\ orders'[id].completedOn # NoTime
             /\ orders'[id].completedOn >= orders[id].completedOn]_vars

(***************************************************************************)
(* Properties of User.checkout (CheckoutSpec, ExpirySpec).                 *)
(***************************************************************************)
\* every checkout so far was made with the user's own token, and none that
\* has called back saw the gateway or the mail transport fail
AllAnsweredWithSuccess ==
    \A p \in Procs :
        /\ req[p].op = "checkout" => req[p].tok = "t1"
        /\ req[p].pc = "done"
           => req[p].res # "PaymentFailed" /\ req[p].nmail = req[p].nch

\* C2: checkout may be retried without double-charging: checkouts of a user
\* made one after the other, each answered with success by the token check,
\* the store, the gateway and the mail transport, charge at most once.
C2_RetryChargesAtMostOnce ==
    AllAnsweredWithSuccess => Len(charges) <= 1

\* C4: a single checkout with a valid token, a cart of catalog items, a
\* charge that succeeded and store writes that succeed leaves, whatever the
\* invoice outcome, exactly one new persisted order, completed with
\* completedOn >= createdOn, the persisted user's orders equal to the
\* previous list plus the id of that order, and the persisted cart empty.
C4_CheckoutLedger ==
    \A p \in Procs :
        (/\ req[p].op = "checkout" /\ req[p].pc = "done"
         /\ req[p].tok = "t1" /\ req[p].nch = 1
         /\ \A q \in Procs \ {p} : req[q].pc = "idle")
        => LET id == req[p].order.id
               user == users[req[p].email]
           IN /\ DOMAIN orders = {id}
              /\ orders[id].completedOn # NoTime
              /\ orders[id].completedOn >= orders[id].createdOn
              /\ user.orders = <<id>>
              /\ user.cart = EmptyMap

\* C8: a checkout presented with a token whose stored expiration is in the
\* past is rejected with status 403, the token record is eventually removed
\* from the store, no order record is created and no charge is made.
C8_Step(p) ==
    LET r == req[p]
        r2 == req'[p]
    IN /\ (/\ r.pc = "co_isValid" /\ r2 # r
           /\ r.tok \in DOMAIN tokens
           /\ tokens[r.tok].expiration < now)
          => /\ r2.pc = "done" /\ r2.status = 403 /\ r2.res = "Unauthorized"
             /\ r2.ncb = 1
             /\ r2.nch = 0 /\ r2.nwr = 0 /\ r2.order = NoOrder
             /\ \A i \in 1..Len(charges) : charges[i].by # p
             /\ orders' = orders /\ charges' = charges /\ users' = users
       \* a checkout that has called back does nothing more
       /\ (r.op = "checkout" /\ r.pc = "done") => r2 = r

C8_Rejected(p) ==
    /\ req[p].op = "checkout" /\ req[p].pc = "done"
    /\ req[p].status = 403 /\ req[p].res = "Unauthorized"

C9_TokenAuthorizesItsUserOnly ==
    [][\A p \in Procs :
          (req[p].pc = "co_isValid" /\ req'[p].pc = "get_isValid")
          => /\ req[p].tok \in DOMAIN tokens
             /\ tokens[req[p].tok].email = req[p].email]_vars

(***************************************************************************)
(* Properties of repeated completion and of the completion-owned fields.   *)
(***************************************************************************)
\* C11: a second call of complete on an already completed order returns the
\* first call's payment receipt unchanged: the result handed to the callback
\* of the second call equals the result handed to the callback of the first
\* successful call.
C11_SecondCallReturnsFirstReceipt ==
    [][\A p \in Procs :
          LET r == req[p]
              r2 == req'[p]
          IN (/\ r.op = "complete" /\ r.pc = "done"
              /\ r.status = 200 /\ r.nch = 1
              /\ r2.calls = r.calls + 1 /\ r2.pc = "done")
             => r2.status = r.status /\ r2.res = r.res]_vars

\* C12: the completion-owned fields of a persisted order are written only
\* by completion: total is 0 and paymentInfo is absent as long as
\* completedOn is absent, paymentInfo is the receipt of a charge the gateway
\* made for that order, and total is the amount complete computed and had
\* charged, never a value or an object a client sent.
C12_CompletionOwnsTotalAndPayment ==
    \A id \in DOMAIN orders :
        LET o == orders[id]
        IN /\ o.completedOn = NoTime => o.total = 0 /\ o.paymentInfo = NoPayment
           /\ o.paymentInfo # NoPayment
              => /\ o.paymentInfo \in 1..Len(charges)
                 /\ charges[o.paymentInfo].order = id
                 /\ charges[o.paymentInfo].amount = o.total * MinorUnits
           /\ o.total # 0 => o.paymentInfo # NoPayment

(***************************************************************************)
(* RejectSpec: one checkout, for u1 or for a malformed email, with the     *)
(* token t1, with the well-formed token id t2 that is not in the store, or *)
(* with a malformed token id.  The record of u1 is missing (the account    *)
(* was deleted in another session), or holds an empty cart, or a cart of   *)
(* catalog items; t1 was issued at time 0, 1 or 2.  Any request to the     *)
(* store, the gateway or the mail transport may fail.                      *)
(***************************************************************************)
\* the carts of u1 in RejectSpec
DeskCarts == {EmptyMap, [i \in {"B"} |-> 1], [i \in ItemIds |-> IF i = "A" THEN 2 ELSE 1]}

InitDesk ==
    /\ InitCommon
    /\ \/ users = EmptyMap
       \/ \E c \in DeskCarts :
             users = [e \in {"u1"} |-> [email |-> e, orders |-> <<>>, cart |-> c]]
    /\ \E t \in 0..2 : tokens = [id \in {"t1"} |-> IssuedToken(id, "u1", t)]
    /\ orders = EmptyMap
    /\ IDs = {}
    /\ charges = <<>>
    /\ mails = <<>>

RejectNext ==
    \/ \E p \in Single :
          \/ \E email \in {"u1", BadEmail}, tok \in TokenIds \cup {BadToken} :
                User_checkout(p, email, tok)
          \/ CheckoutStep(p, BOOLEAN, Answers, BOOLEAN)
    \/ TokenTasks
    \/ Tick

RejectSpec == InitDesk /\ [][RejectNext]_vars

\* C13: a checkout that fails before the order is created has no side
\* effect on orders, payments or the user: an invalid email gives 400, a
\* malformed, unknown or expired token gives 403, a missing user record
\* gives 404 and an empty cart gives 403; in each case no order record is
\* created, the gateway is not charged, no invoice is sent and the persisted
\* user record is unchanged.
C13_Step(p) ==
    LET r == req[p]
        r2 == req'[p]
        called == r.pc = "idle" /\ r2.op = "checkout"
        badToken == \/ r.tok \notin DOMAIN tokens
                    \/ tokens[r.tok].expiration <= now
        failed(status) ==
            /\ r2.pc = "done" /\ r2.status = status /\ r2.ncb = 1
            /\ r2.nch = 0 /\ r2.nwr = 0 /\ r2.nmail = 0
            /\ r2.order = NoOrder
            /\ orders' = orders /\ charges' = charges
            /\ mails' = mails /\ users' = users
    IN /\ (called /\ r2.email \notin Emails) => failed(400)
       /\ (called /\ r2.email \in Emails /\ r2.tok \notin TokenIds) => failed(403)
       /\ (r.pc \in {"co_isValid", "get_isValid"} /\ r2 # r /\ badToken)
          => failed(403)
       /\ (r.pc = "get_read" /\ r2 # r /\ r.email \notin DOMAIN users)
          => failed(404)
       /\ (/\ r.pc = "get_read" /\ r2 # r /\ r.email \in DOMAIN users
           /\ users[r.email].cart = EmptyMap)
          => failed(403) /\ r2.res = "EmptyCart"
       \* a checkout that failed so does nothing afterwards
       /\ (/\ r.op = "checkout" /\ r.pc = "done"
           /\ r.status \in {400, 403, 404} /\ r.nwr = 0)
          => /\ r2 = r
             /\ orders' = orders /\ charges' = charges
             /\ mails' = mails /\ users' = users

\* C13 for every step of every request
C13_EarlyFailureHasNoEffect == [][\A p \in Procs : C13_Step(p)]_vars

\* C13 witness: the token was found valid twice and the user was read, the
\* checkout was refused for the empty cart, and nothing else has happened
C13_Witness ==
    \E p \in Procs :
        /\ req[p].op = "checkout" /\ req[p].pc = "done"
        /\ req[p].status = 403 /\ req[p].res = "EmptyCart"
        /\ req[p].email \in DOMAIN users
        /\ users[req[p].email].cart = EmptyMap
        /\ users[req[p].email].orders = <<>>
        /\ orders = EmptyMap /\ charges = <<>> /\ mails = <<>>

(***************************************************************************)
(* Properties of the steps of one checkout (ExpirySpec).                   *)
(***************************************************************************)
\* the step of checkout a request is in: 1 TokenCheck, 2 UserLookup and
\* CartNotEmptyCheck, 3 OrderCreate, 4 OrderComplete, 5 UserOrderListAppend,
\* 6 once it has ended, 0 before it starts
CheckoutStage(pc) ==
    CASE pc = "idle" -> 0
      [] pc = "co_isValid" -> 1
      [] pc \in {"get_isValid", "get_read"} -> 2
      [] pc \in {"post_list", "post_reads", "post_create"} -> 3
      [] pc \in {"cmp_list", "cmp_reads", "cmp_pay", "oput_list", "oput_reads",
                 "oput_read", "oput_update", "inv_list", "inv_reads",
                 "inv_mail"} -> 4
      [] pc \in {"uput_isValid", "uput_read", "uput_update"} -> 5
      [] OTHER -> 6

\* C14: within one checkout the steps happen strictly in the order
\* TokenCheck, UserLookup, CartNotEmptyCheck, OrderCreate, OrderComplete,
\* UserOrderListAppend: the order record is created only after the token
\* was found valid and the user's cart was read non-empty, the gateway is
\* charged only after the order record was persisted, and the user record
\* is written only after the gateway reported a successful charge and
\* complete called back with success.
C14_Step(p) ==
    LET r == req[p]
        r2 == req'[p]
        from == CheckoutStage(r.pc)
        to == CheckoutStage(r2.pc)
        id == r.order.id
    IN (r2.op = "checkout" /\ r2 # r)
       => \* no step is skipped, repeated or taken out of order
          /\ to = from + 1 \/ to = from \/ to = 6
          /\ from = 6 => to = 6
          \* TokenCheck: the token is found valid
          /\ (from = 1 /\ to = 2)
             => r.tok \in DOMAIN tokens /\ tokens[r.tok].expiration > now
          \* UserLookup, CartNotEmptyCheck: the cart read is not empty
          /\ (from = 2 /\ to = 3)
             => /\ r.pc = "get_read" /\ r.email \in DOMAIN users
                /\ users[r.email].cart # EmptyMap
                /\ r2.user.cart = users[r.email].cart
                /\ orders = EmptyMap /\ charges = <<>>
          \* OrderCreate: the order record is persisted
          /\ (from = 3 /\ to = 4)
             => /\ r.pc = "post_create" /\ r2.order.id \in DOMAIN orders'
                /\ orders'[r2.order.id].items = r.user.cart
                /\ r2.nwr = 1 /\ charges' = <<>>
          \* OrderComplete: the gateway has charged and complete calls back
          \* with success
          /\ (from = 4 /\ to = 5)
             => /\ r.nch = 1 /\ Len(charges) = 1 /\ charges[1].order = id
                /\ r.ost = 200
                /\ orders[id].completedOn # NoTime
                /\ users' = users
          \* an ended checkout does nothing more
          /\ r.pc \in {"done", "hung", "thrown"} => r2 = r

\* what a step changes, it changes in the step of checkout it belongs to
C14_Effects ==
    /\ orders' # orders
       => \E p \in Procs :
             /\ req[p].pc \in {"post_create", "oput_update"}
             /\ req[p].pc = "post_create"
                => DOMAIN req[p].user.cart # {} /\ charges = <<>>
    /\ charges' # charges
       => \E p \in Procs :
             /\ req[p].pc = "cmp_pay"
             /\ req[p].order.id \in DOMAIN orders
             /\ req[p].nwr = 1
    /\ users' # users
       => \E p \in Procs :
             /\ req[p].pc = "uput_update"
             /\ req[p].nch = 1 /\ Len(charges) = 1
             /\ orders[req[p].order.id].completedOn # NoTime

\* C14 for every step of every request
C14_CheckoutStepsInOrder ==
    [][C14_Effects /\ \A p \in Procs : C14_Step(p)]_vars

\* C14 witness: a checkout went through all the steps: the order is stored
\* as completed, it was charged once, and the user record holds it
C14_Witness ==
    \E p \in Procs :
        /\ req[p].op = "checkout" /\ req[p].pc = "done" /\ req[p].status = 200
        /\ req[p].nch = 1 /\ Len(charges) = 1
        /\ req[p].order.id \in DOMAIN orders
        /\ orders[req[p].order.id].completedOn # NoTime
        /\ users[req[p].email].orders = <<req[p].order.id>>
        /\ users[req[p].email].cart = EmptyMap

(***************************************************************************)
(* Properties of a catalog that cannot be listed.                          *)
(***************************************************************************)
\* C15: if the catalog price map cannot be loaded when complete runs (the
\* listing of the items fails), complete fails with the CatalogUnavailable
\* dependency error (500-class), distinct from the EmptyOrder and
\* PaymentFailed errors, and the gateway is not charged.
C15_FailedListingIsCatalogUnavailable ==
    [][\A p \in Procs :
          LET r == req[p]
              r2 == req'[p]
          IN (r.pc = "cmp_list" /\ r2 # r /\ r2.pc \notin {"cmp_reads", "hung"})
             => /\ r2.pc = "done"
                /\ r2.status >= 500
                /\ r2.res \notin {"EmptyOrder", "PaymentFailed"}
                /\ charges' = charges /\ r2.nch = r.nch]_vars

\* C16: if listing the catalog fails while an order is being created
\* (Order.post, and so the OrderCreate step of checkout), the caller's
\* callback is invoked with an explicit catalog-unavailable failure, no
\* order record is persisted and no charge is made.
C16_FailedListingFailsOrderPost ==
    [][\A p \in Procs :
          LET r == req[p]
              r2 == req'[p]
          IN (r.pc = "post_list" /\ r2 # r /\ r2.pc \notin {"post_reads", "hung"})
             => /\ r2.pc = "done" /\ r2.ncb = r.ncb + 1
                /\ r2.status >= 500
                /\ orders' = orders /\ charges' = charges]_vars

(***************************************************************************)
(* Properties of the failures after the order was created (ExpirySpec).    *)
(***************************************************************************)
\* C17: complete makes a single charge attempt per call and, when the
\* gateway errors or reports a charge that is not paid and succeeded, fails
\* with PaymentFailed (status 400): the persisted order keeps completedOn
\* absent, paymentInfo absent and total 0, no invoice is sent, and the
\* checkout that called it leaves the user's persisted cart and orders list
\* unchanged.
C17_Step(p) ==
    LET r == req[p]
        r2 == req'[p]
        id == r.order.id
    IN \* the gateway has answered, and has not charged
       /\ (r.pc = "cmp_pay" /\ r2 # r /\ charges' = charges)
          => /\ r2.pc = "done" /\ r2.status = 400 /\ r2.res = "PaymentFailed"
             /\ r2.ncb = r.ncb + 1
             /\ r2.nch = 0 /\ r2.nmail = 0
             /\ mails' = mails /\ orders' = orders /\ users' = users
             /\ orders[id].completedOn = NoTime
             /\ orders[id].paymentInfo = NoPayment
             /\ orders[id].total = 0
             /\ r.op = "checkout"
                => /\ users[r.email].orders = <<>>
                   /\ users[r.email].cart = orders[id].items
       \* one attempt: the gateway is asked once, and charges at most once
       /\ r.pc = "cmp_pay" => r.nch = 0
       /\ r2.pc = "cmp_pay" /\ r2 # r => r.pc = "cmp_reads"
       /\ Len(charges') <= Len(charges) + 1
       \* after the failure nothing more is done
       /\ (r.pc = "done" /\ r.res = "PaymentFailed")
          => /\ r2 = r
             /\ mails' = mails /\ orders' = orders
             /\ users' = users /\ charges' = charges

\* C17 for every step of every request
C17_PaymentFailedChangesNothing == [][\A p \in Procs : C17_Step(p)]_vars

\* C17 witness: the checkout was answered with PaymentFailed; the order it
\* created is stored uncompleted, and the user's cart and orders are as
\* before
C17_Witness ==
    \E p \in Procs :
        /\ req[p].op = "checkout" /\ req[p].pc = "done"
        /\ req[p].status = 400 /\ req[p].res = "PaymentFailed"
        /\ charges = <<>> /\ mails = <<>>
        /\ orders[req[p].order.id].completedOn = NoTime
        /\ orders[req[p].order.id].total = 0
        /\ users[req[p].email].orders = <<>>
        /\ users[req[p].email].cart = orders[req[p].order.id].items

\* the steps of sendInvoice, after which complete calls back
InvoiceSteps == {"inv_list", "inv_reads", "inv_mail"}

\* C18: if persisting the completed order fails after a successful charge,
\* the failure is surfaced: complete, and the checkout that called it, calls
\* back with a non-success status, whatever the outcome of the invoice mail,
\* and no second charge or refund is attempted.
C18_PersistFailureIsSurfaced ==
    [][\A p \in Procs :
          LET r == req[p]
              r2 == req'[p]
          IN (/\ r.op = "checkout" /\ r.pc \in InvoiceSteps
              /\ r.nch = 1 /\ r.ost # 200
              /\ r2.pc = "done")
             => /\ StatusCode(r2.status) # 200
                /\ charges' = charges /\ r2.nch = 1]_vars

\* C19: if the final write of the user record fails after a successful
\* completion, checkout calls back with a non-success result that is
\* distinguishable from a payment failure, and the persisted order stays
\* completed (completedOn and paymentInfo set).
C19_Step(p) ==
    LET r == req[p]
        r2 == req'[p]
        id == r.order.id
        completed == /\ id \in DOMAIN orders'
                     /\ orders'[id].completedOn # NoTime
                     /\ orders'[id].completedOn >= orders'[id].createdOn
                     /\ orders'[id].paymentInfo = r.order.paymentInfo
                     /\ orders'[id].paymentInfo # NoPayment
    IN \* dataStore.update of the user record has failed
       /\ (r.pc = "uput_update" /\ r2 # r /\ users' = users)
          => /\ r2.pc = "done" /\ r2.ncb = r.ncb + 1
             /\ r2.status = 500
             /\ StatusCode(r2.status) # 200
             /\ r2.status # 400 /\ r2.res # "PaymentFailed"
             /\ orders' = orders /\ charges' = charges
             /\ completed
       \* User.put has failed before the write
       /\ (r.pc \in {"uput_isValid", "uput_read"} /\ r2.pc = "done")
          => /\ StatusCode(r2.status) # 200
             /\ r2.res # "PaymentFailed"
             /\ orders' = orders /\ charges' = charges /\ users' = users
             /\ completed
       \* and the order stays completed afterwards
       /\ (r.op = "checkout" /\ r.pc = "done" /\ r.nch = 1 /\ r.status = 500
           /\ r.res = "Error" /\ orders[id].completedOn # NoTime)
          => orders' = orders /\ charges' = charges

\* C19 for every step of every request
C19_UserWriteFailureIsReported == [][\A p \in Procs : C19_Step(p)]_vars

\* C19 witness: the order was charged and stored as completed, the write of
\* the user record failed, and checkout was answered with 500
C19_Witness ==
    \E p \in Procs :
        /\ req[p].op = "checkout" /\ req[p].pc = "done"
        /\ req[p].status = 500 /\ req[p].res = "Error"
        /\ req[p].nch = 1 /\ Len(charges) = 1
        /\ users[req[p].email].orders = <<>>
        /\ orders[req[p].order.id].completedOn # NoTime
        /\ orders[req[p].order.id].paymentInfo = 1

(***************************************************************************)
(* Properties of sendInvoice (OrderSpec).                                  *)
(***************************************************************************)
\* C20: a failure to send the invoice never unwinds completion: after a
\* successful charge and order write, the persisted order keeps completedOn,
\* paymentInfo and total whether the mail transport succeeds or fails, and
\* no compensating write or charge is issued.
C20_Step(p) ==
    LET r == req[p]
        r2 == req'[p]
        id == r.order.id
        paid == r.op = "complete" /\ r.nch = 1 /\ r.nwr = 1
        kept == /\ orders' = orders /\ charges' = charges
                /\ r2.nwr = r.nwr /\ r2.nch = r.nch
                /\ orders'[id].completedOn = r.order.completedOn
                /\ orders'[id].completedOn # NoTime
                /\ orders'[id].paymentInfo = r.order.paymentInfo
                /\ orders'[id].paymentInfo # NoPayment
                /\ orders'[id].total = r.order.total
                /\ orders'[id].total > 0
    IN \* the steps of sendInvoice, the mail sent or not
       /\ (paid /\ r.pc \in InvoiceSteps /\ r.ost = 200) => kept
       \* and what follows the callback of complete
       /\ (paid /\ r.pc \in {"done", "hung", "thrown"}
           /\ orders[id].completedOn # NoTime)
          => kept
       \* the invoice is sent at most once, by sendInvoice
       /\ r2.nmail <= 1
       /\ r2.nmail # r.nmail => r.pc = "inv_mail" /\ mails' = Append(mails, id)

\* C20 for every step of every request
C20_InvoiceNeverUnwinds == [][\A p \in Procs : C20_Step(p)]_vars

\* C20 witness: the order was charged and stored, the invoice was not sent,
\* and the stored order is completed with its receipt and its total
C20_Witness ==
    \E p \in Procs :
        /\ req[p].op = "complete" /\ req[p].pc = "done"
        /\ req[p].res = "Receipt" /\ req[p].status = 200
        /\ req[p].nch = 1 /\ req[p].nwr = 1 /\ req[p].nmail = 0
        /\ mails = <<>> /\ Len(charges) = 1
        /\ orders[req[p].order.id].completedOn # NoTime
        /\ orders[req[p].order.id].paymentInfo = 1
        /\ orders[req[p].order.id].total * MinorUnits = charges[1].amount

(***************************************************************************)
(* RaceSpec: the checkouts of u1, all with the token t1, run at the same   *)
(* time: the callbacks of their I/O operations interleave in any order.    *)
(* The store and the gateway answer with success, and the invoice is not   *)
(* sent (so that complete calls back with the status of Order.put).        *)
(***************************************************************************)
InitRace ==
    /\ InitCommon
    /\ users = [e \in {"u1"} |->
                  [email |-> e, orders |-> <<>>, cart |-> [i \in {"B"} |-> 1]]]
    /\ tokens = [id \in {"t1"} |-> IssuedToken(id, "u1", 2)]
    /\ orders = EmptyMap
    /\ IDs = {}
    /\ charges = <<>>
    /\ mails = <<>>

RaceNext ==
    \/ \E p \in Procs :
          \/ User_checkout(p, "u1", "t1")
          \/ CheckoutStep(p, {TRUE}, {"paid"}, {FALSE})
    \/ ExtendTasks

RaceSpec == InitRace /\ [][RaceNext]_vars

\* the identifiers in the orders list of a user document
OrderIds(user) == {user.orders[i] : i \in 1..Len(user.orders)}

\* C21: checkout only appends to a user's orders list: under any
\* interleaving of checkouts of the same user, no checkout removes an
\* identifier that is in the persisted orders list, so that in the end the
\* list holds the id of every order whose checkout called back with success.
C21_CheckoutOnlyAppends ==
    [][\A e \in DOMAIN users :
          /\ e \in DOMAIN users'
          /\ OrderIds(users[e]) \subseteq OrderIds(users'[e])]_vars

(***************************************************************************)
(* Order.delete                                                            *)
(***************************************************************************)
\* a request DELETE /orders?id=... arrives
Order_delete(p, id) ==
    /\ CanStart(p)
    /\ req' = [req EXCEPT ![p] =
                 IF isValidOrderId(id)
                 THEN [@ EXCEPT !.op = "orderDelete", !.payload = [id |-> id],
                                !.pc = "odel_read"]
                 ELSE Done([@ EXCEPT !.op = "orderDelete"], 400, "MissingField")]
    /\ UNCHANGED <<now, store, IDs, charges, mails, bg>>

\* the callback of dataStore.read('orders', id)
Order_delete_read(p) ==
    /\ req[p].pc = "odel_read"
    /\ LET r == req[p]
           id == r.payload.id
       IN req' = [req EXCEPT ![p] =
                    IF id \in DOMAIN orders /\ OrderNew(orders[id], now).id = id
                    THEN [r EXCEPT !.pc = "odel_unlink"]
                    ELSE Done(r, 400, "NotFound")]
    /\ UNCHANGED <<now, store, IDs, charges, mails, bg>>

\* the callback of dataStore.delete('orders', id)
Order_delete_unlink(p, ok) ==
    /\ req[p].pc = "odel_unlink"
    /\ LET r == req[p]
           id == r.payload.id
       IN IF ok /\ id \in DOMAIN orders
          THEN /\ orders' = Drop(orders, id)
               /\ req' = [req EXCEPT ![p] = Done(r, 200, "Order")]
          ELSE /\ req' = [req EXCEPT ![p] = Done(r, 400, "Error")]
               /\ UNCHANGED orders
    /\ UNCHANGED <<now, users, tokens, items, IDs, charges, mails, bg>>

DeleteStep(p) ==
    \/ Order_delete_read(p)
    \/ \E ok \in BOOLEAN : Order_delete_unlink(p, ok)

(***************************************************************************)
(* RecordSpec: requests on the orders that arrive one after the other,     *)
(* each an Order.post, a PUT /orders, a complete or an Order.delete, with  *)
(* any payload.                                                            *)
(***************************************************************************)
\* payloads of POST /orders in RecordSpec
RecordPayloads ==
    {[email |-> "u1", items |-> m] :
        m \in {EmptyMap, [i \in {"A"} |-> -1], [i \in {"B"} |-> 2]}}

\* payloads of PUT /orders in RecordSpec: a completedOn before and after the
\* creation time, a negative and a positive total, items, and nothing
RecordUpdates(id) ==
    {[id |-> id, completedOn |-> 1], [id |-> id, completedOn |-> MaxClock],
     [id |-> id, total |-> -1], [id |-> id, total |-> 7],
     [id |-> id, items |-> [i \in {"B"} |-> 2]], [id |-> id]}

\* one order, posted at time 2 or already completed
InitRecord ==
    /\ InitCommon
    /\ users = EmptyMap
    /\ tokens = EmptyMap
    /\ IDs = {1}
    /\ \/ /\ orders = [id \in {1} |-> PostedOrder(1, [i \in {"B"} |-> 1])]
          /\ charges = <<>>
          /\ mails = <<>>
       \/ /\ orders = [id \in {1} |-> CompletedOrder(1, [i \in {"B"} |-> 1])]
          /\ charges = <<[order |-> 1, by |-> 0, amount |-> 5 * MinorUnits]>>
          /\ mails = <<1>>

RecordNext ==
    \/ \E p \in Procs :
          \/ Quiet /\ \E payload \in RecordPayloads : Order_post(p, payload)
          \/ Quiet /\ \E id \in DOMAIN orders : Order_complete(p, id)
          \/ Quiet /\ \E id \in DOMAIN orders :
                         \E payload \in RecordUpdates(id) : Order_put(p, payload)
          \/ Quiet /\ \E id \in DOMAIN orders : Order_delete(p, id)
          \/ PostStep(p)
          \/ CompleteStep(p)
          \/ PutStep(p)
          \/ DeleteStep(p)
    \/ Tick

RecordSpec == InitRecord /\ [][RecordNext]_vars

\* C22: in every reachable state every persisted order record has
\* completedOn absent or completedOn >= createdOn, and total >= 0, after any
\* sequence of order create, update, complete and delete operations with
\* arbitrary payloads.
C22_PersistedOrderIsWellFormed ==
    \A id \in DOMAIN orders :
        /\ orders[id].completedOn = NoTime
           \/ orders[id].completedOn >= orders[id].createdOn
        /\ orders[id].total >= 0

\* C22 witness: an update of a completed order was accepted and written; it
\* carried a completedOn earlier than the creation time, so that the stored
\* order, which keeps its payment, has no completedOn
C22_Witness ==
    \E p \in Procs, id \in DOMAIN orders :
        /\ req[p].op = "orderPut" /\ req[p].pc = "done" /\ req[p].status = 200
        /\ orders[id].paymentInfo # NoPayment
        /\ orders[id].completedOn = NoTime

\* C23: the identity fields of a persisted order never change after
\* creation: in every step, every order that stays in the store keeps its id,
\* its owner email and its createdOn, whatever updates and completions are
\* applied.
C23_IdentityFieldsNeverChange ==
    [][\A id \in DOMAIN orders \cap DOMAIN orders' :
          /\ orders'[id].id = orders[id].id
          /\ orders'[id].email = orders[id].email
          /\ orders'[id].createdOn = orders[id].createdOn]_vars

\* C24: every persisted order's items map sends each item id to a positive
\* integer quantity: every order record that a step creates has only
\* positive quantities.
C24_CreatedOrderHasPositiveQuantities ==
    [][\A id \in DOMAIN orders' \ DOMAIN orders :
          \A i \in DOMAIN orders'[id].items : orders'[id].items[i] > 0]_vars

\* C25: no persisted order ever has an empty items mapping: neither order
\* creation nor any later update, completion or deletion leaves an order
\* record whose items map has no entry.
C25_NoOrderWithoutItems ==
    \A id \in DOMAIN orders : DOMAIN orders[id].items # {}

\* C25 witness: an Order.post whose items were all filtered out was refused,
\* and an update that carried no items was accepted and written
C25_Witness ==
    \E p, q \in Procs, id \in DOMAIN orders :
        /\ req[p].op = "orderPost" /\ req[p].pc = "done" /\ req[p].status = 400
        /\ req[p].res = "EmptyCart"
        /\ req[q].op = "orderPut" /\ req[q].pc = "done" /\ req[q].status = 200
        /\ orders[id].total = 7
        /\ DOMAIN orders[id].items # {}

(***************************************************************************)
(* User.addToCart and User.removeFromCart                                  *)
(***************************************************************************)
\* User.addToCart(data, callback): dataStore.list("items") is called first;
\* itemId and quantity are the fields of data.payload
AddToCartEntry(r, email, tok, itemId, quantity) ==
    [r EXCEPT !.email = email, !.tok = tok, !.itemId = itemId,
              !.quantity = quantity, !.pc = "cart_list"]

\* a request to add an item to the cart arrives
User_addToCart(p, email, tok, itemId, quantity) ==
    /\ CanStart(p)
    /\ req' = [req EXCEPT ![p] =
                 AddToCartEntry([req[p] EXCEPT !.op = "addToCart"],
                                email, tok, itemId, quantity)]
    /\ UNCHANGED <<now, store, IDs, charges, mails, bg>>

\* a request to remove an item from the cart arrives: addToCart with the
\* quantity 0
User_removeFromCart(p, email, tok, itemId) ==
    /\ CanStart(p)
    /\ req' = [req EXCEPT ![p] =
                 AddToCartEntry([req[p] EXCEPT !.op = "removeFromCart"],
                                email, tok, itemId, 0)]
    /\ UNCHANGED <<now, store, IDs, charges, mails, bg>>

\* the callback of dataStore.list("items"): User.get is called when the
\* item is listed
User_cart_list(p, ok) ==
    /\ req[p].pc = "cart_list"
    /\ req' = [req EXCEPT ![p] =
                 IF ~(ok /\ isValidItemId(@.itemId) /\ @.itemId \in DOMAIN items)
                 THEN Done(@, 500, "CatalogUnavailable")
                 ELSE IF ~isValidEmail(@.email) THEN Done(@, 400, "MissingField")
                 ELSE IF ~isValidTokenId(@.tok) THEN Done(@, 403, "Unauthorized")
                 ELSE [@ EXCEPT !.pc = "get_isValid"]]
    /\ UNCHANGED <<now, store, IDs, charges, mails, bg>>

CartStep(p, oks) ==
    \/ \E ok \in oks : User_cart_list(p, ok)
    \/ User_get_isValid(p)
    \/ User_get_read(p)
    \/ User_put_isValid(p)
    \/ User_put_read(p)
    \/ \E ok \in oks : User_put_update(p, ok)

(***************************************************************************)
(* CartSpec: one request on the cart of u1, while items leave the catalog,  *)
(* time passes and the token is extended or deleted.                       *)
(***************************************************************************)
\* the quantities of a request: not a number, negative, zero and positive
\* an item id that has not the length of an id
BadItem == "zz"

CartQuantities == {NoTime, -2, 0, 1, 2}

\* u1 has logged in at time 0 or 2, has placed the order 1 and has any cart
InitCart ==
    /\ InitCommon
    /\ \E c \in {EmptyMap, [i \in {"A"} |-> 1], [i \in ItemIds |-> 1]} :
          users = [e \in {"u1"} |-> [email |-> e, orders |-> <<1>>, cart |-> c]]
    /\ \E t \in {0, 2} : tokens = [id \in {"t1"} |-> IssuedToken(id, "u1", t)]
    /\ orders = EmptyMap /\ IDs = {} /\ charges = <<>> /\ mails = <<>>

CartNext ==
    \/ \E p \in Single :
          \/ \E itemId \in ItemIds \cup {BadItem}, quantity \in CartQuantities :
                User_addToCart(p, "u1", "t1", itemId, quantity)
          \/ \E itemId \in ItemIds : User_removeFromCart(p, "u1", "t1", itemId)
          \/ CartStep(p, BOOLEAN)
    \/ \E id \in ItemIds : Item_delete(id)
    \/ Tick
    \/ TokenTasks

CartSpec == InitCart /\ [][CartNext]_vars

\* the cart addToCart is to leave for the quantity q of the item
ExpectedCart(cart, itemId, q) ==
    IF q # NoTime /\ q > 0 THEN Put(cart, itemId, q) ELSE Drop(cart, itemId)

C27_Step(p) ==
    LET r == req[p]
        r2 == req'[p]
    IN r.op = "addToCart" /\ r.pc \notin {"idle", "done"} =>
          \* an item id that is not in the catalog fails
          /\ r.pc = "cart_list" /\ r2 # r /\ r.itemId \notin DOMAIN items
                => r2.pc = "done" /\ r2.status # 200
          \* a success has set or removed the entry and nothing else
          /\ r2.pc = "done" /\ r2.status = 200
                => users' = [users EXCEPT ![r.email].cart =
                                ExpectedCart(@, r.itemId, r.quantity)]
          \* any other step leaves the users alone
          /\ ~(r2.pc = "done" /\ r2.status = 200) => users' = users

\* C27: addToCart with a catalog item id and a quantity q > 0 sets
\* cart[itemId] = q, replacing a previous quantity; with q <= 0 or a
\* quantity that is not a number it removes the entry; in both cases every
\* other cart entry and the user's orders list are unchanged; with an item
\* id that is not in the catalog it fails and leaves the cart unchanged.
C27_AddToCartSetsOrRemovesOneEntry == [][\A p \in Procs : C27_Step(p)]_vars

\* C27 witness: addToCart has replaced the quantity 1 of A by 2 and the
\* entry of B is as it was
C27_Witness ==
    \E p \in Procs :
        /\ req[p].op = "addToCart" /\ req[p].pc = "done" /\ req[p].status = 200
        /\ users["u1"].cart = [i \in ItemIds |-> IF i = "A" THEN 2 ELSE 1]
        /\ users["u1"].orders = <<1>>

(***************************************************************************)
(* RemoveSpec: one removeFromCart on the cart of u1; the store answers     *)
(* every call, while items leave the catalog, time passes and the token is *)
(* extended or deleted.                                                    *)
(***************************************************************************)
RemoveNext ==
    \/ \E p \in Single :
          \/ \E itemId \in ItemIds : User_removeFromCart(p, "u1", "t1", itemId)
          \/ CartStep(p, {TRUE})
    \/ \E id \in ItemIds : Item_delete(id)
    \/ Tick
    \/ TokenTasks

RemoveSpec == InitCart /\ [][RemoveNext]_vars

\* C28: removeFromCart removes an item from the user's cart: when it calls
\* back for an item id that is in the cart of a user whose token is valid,
\* be the id in the catalog or not, the persisted cart has no entry for
\* that id.
C28_RemoveFromCartRemovesTheEntry ==
    [][\A p \in Procs :
          LET r == req[p]
          IN /\ r.op = "removeFromCart" /\ r.pc \notin {"idle", "done"}
             /\ req'[p].pc = "done"
             /\ TokenIsValid(r.tok)
             /\ r.itemId \in DOMAIN users[r.email].cart
             => r.itemId \notin DOMAIN users'[r.email].cart]_vars

(***************************************************************************)
(* User.delete                                                             *)
(***************************************************************************)
\* dataStore builds the path baseDir + dir + "/" + file + ".json" from the
\* file name as it is given: in the directory orders, the name
\* "../items/" + itemId is the file of that item.  These names are numbered
\* below the order ids.
ItemPath(itemId) == IF itemId = "A" THEN -1 ELSE -2

\* the item whose file the name is
PathItem(file) == IF file = -1 THEN "A" ELSE "B"

\* a request DELETE /users?email=... arrives: 1. and 2. of delete
User_delete(p, email, tok) ==
    /\ CanStart(p)
    /\ LET r == [req[p] EXCEPT !.op = "userDelete", !.email = email, !.tok = tok]
       IN req' = [req EXCEPT ![p] =
                    IF ~isValidEmail(email) THEN Done(r, 400, "MissingField")
                    ELSE IF ~isValidTokenId(tok) THEN Done(r, 403, "Unauthorized")
                    ELSE [r EXCEPT !.pc = "del_isValid"]]
    /\ UNCHANGED <<now, store, IDs, charges, mails, bg>>

\* 3. token.isValid calls back; 4. the user is looked up
User_delete_isValid(p) ==
    /\ req[p].pc = "del_isValid"
    /\ req' = [req EXCEPT ![p] =
                 IF TokenIsValid(@.tok) THEN [@ EXCEPT !.pc = "del_read"]
                 ELSE Done(@, 403, "Unauthorized")]
    /\ bg' = IF TokenIsValid(req[p].tok) THEN bg ELSE AfterIsValid(req[p].tok)
    /\ UNCHANGED <<now, store, IDs, charges, mails>>

\* the callback of dataStore.read("users", email); 5. token.delete is called
User_delete_read(p) ==
    /\ req[p].pc = "del_read"
    /\ LET r == req[p]
           user == UserNew(users[r.email])
       IN req' = [req EXCEPT ![p] =
                    IF r.email \in DOMAIN users /\ user.email = r.email
                    THEN [r EXCEPT !.user = user, !.pc = "del_token_read"]
                    ELSE Done(r, 400, "NotFound")]
    /\ UNCHANGED <<now, store, IDs, charges, mails, bg>>

\* Token.delete: the callback of dataStore.read("tokens", id)
User_delete_token_read(p) ==
    /\ req[p].pc = "del_token_read"
    /\ req' = [req EXCEPT ![p] =
                 IF @.tok \in DOMAIN tokens /\ tokens[@.tok].id = @.tok
                 THEN [@ EXCEPT !.pc = "del_token_unlink"]
                 ELSE Done(@, 400, "NotFound")]
    /\ UNCHANGED <<now, store, IDs, charges, mails, bg>>

\* Token.delete: the callback of dataStore.delete("tokens", id); 6. the
\* user document is deleted
User_delete_token_unlink(p, ok) ==
    /\ req[p].pc = "del_token_unlink"
    /\ LET r == req[p]
       IN IF ok /\ r.tok \in DOMAIN tokens
          THEN /\ tokens' = Drop(tokens, r.tok)
               /\ req' = [req EXCEPT ![p] = [r EXCEPT !.pc = "del_user"]]
          ELSE /\ req' = [req EXCEPT ![p] = Done(r, 500, "Error")]
               /\ UNCHANGED tokens
    /\ UNCHANGED <<now, users, orders, items, IDs, charges, mails, bg>>

\* the callback of dataStore.delete("users", email); 7. a deletion is
\* started for each of the orders the user lists
User_delete_user(p, ok) ==
    /\ req[p].pc = "del_user"
    /\ LET r == req[p]
           userOrders == OrderIds(r.user)
       IN IF ok /\ r.email \in DOMAIN users
          THEN /\ users' = Drop(users, r.email)
               /\ req' = [req EXCEPT ![p] =
                            IF userOrders = {} THEN Done(r, 200, "OK")
                            ELSE [r EXCEPT !.toDelete = userOrders,
                                           !.pc = "del_orders"]]
          ELSE /\ req' = [req EXCEPT ![p] = Done(r, 400, "Error")]
               /\ UNCHANGED users
    /\ UNCHANGED <<now, tokens, orders, items, IDs, charges, mails, bg>>

\* the callback of one dataStore.delete("orders", orderId); the last one
\* calls back
User_delete_order(p, orderId, ok) ==
    /\ req[p].pc = "del_orders"
    /\ orderId \in req[p].toDelete
    /\ LET r == req[p]
           isOrder == orderId \in DOMAIN orders
           isItem == orderId \in {ItemPath(i) : i \in DOMAIN items}
           deleted == ok /\ (isOrder \/ isItem)
           r1 == [r EXCEPT !.toDelete = @ \ {orderId},
                           !.deletionErrors = @ \/ ~deleted]
       IN /\ orders' = IF ok /\ isOrder THEN Drop(orders, orderId) ELSE orders
          /\ items' = IF ok /\ isItem THEN Drop(items, PathItem(orderId))
                      ELSE items
          /\ req' = [req EXCEPT ![p] =
                       IF r1.toDelete # {} THEN r1
                       ELSE IF ~r1.deletionErrors THEN Done(r1, 200, "OK")
                       ELSE Done(r1, 500, "Error")]
    /\ UNCHANGED <<now, users, tokens, IDs, charges, mails, bg>>

UserDeleteStep(p, oks) ==
    \/ User_delete_isValid(p)
    \/ User_delete_read(p)
    \/ User_delete_token_read(p)
    \/ \E ok \in oks : User_delete_token_unlink(p, ok)
    \/ \E ok \in oks : User_delete_user(p, ok)
    \/ \E ok \in oks, orderId \in req[p].toDelete : User_delete_order(p, orderId, ok)

\* the token tasks that delete a token that was found expired
ExpiredTasks ==
    \E task \in BagToSet(bg) : Token_delete_read(task) \/ Token_unlink(task)

(***************************************************************************)
(* AccountSpec: one User.delete of u1 with the token t1.  u1 has logged in *)
(* once or twice; its orders were placed at checkout, which lists them in  *)
(* the user document, or with POST /orders, which does not.                *)
(***************************************************************************)
InitAccount ==
    /\ InitCommon
    /\ \E c \in {EmptyMap, [i \in {"A"} |-> 1]}, l \in {<<>>, <<1>>} :
          users = [e \in {"u1"} |-> [email |-> e, orders |-> l, cart |-> c]]
    /\ \E t \in {0, 2}, ids \in {{"t1"}, TokenIds} :
          tokens = [id \in ids |-> IssuedToken(id, "u1", t)]
    /\ \E ids \in {{1}, {1, 2}} :
          /\ orders = [id \in ids |-> PostedOrder(id, [i \in {"B"} |-> 1])]
          /\ IDs = ids
    /\ charges = <<>> /\ mails = <<>>

AccountNext ==
    \/ \E p \in Single :
          \/ User_delete(p, "u1", "t1")
          \/ UserDeleteStep(p, BOOLEAN)
    \/ Tick
    \/ ExpiredTasks

AccountSpec == InitAccount /\ [][AccountNext]_vars

\* C26: deleting a user deletes all its related data: when User.delete
\* calls back with success for the email E, the store holds no user record
\* for E, no token record bound to E and no order record whose owner is E.
C26_UserDeleteRemovesAllData ==
    [][\A p \in Procs :
          LET r == req[p]
          IN /\ r.op = "userDelete" /\ r.pc \notin {"idle", "done"}
             /\ req'[p].pc = "done" /\ req'[p].status = 200
             => /\ r.email \notin DOMAIN users'
                /\ \A id \in DOMAIN tokens' : tokens'[id].email # r.email
                /\ \A id \in DOMAIN orders' : orders'[id].email # r.email]_vars

(***************************************************************************)
(* SlidingSpec: ExpirySpec, where the write of an extension may fail too.  *)
(* Token.put then calls back with 500, which nobody listens to; the task   *)
(* is kept in bg with the pc "failed" as the record of that outcome.       *)
(***************************************************************************)
\* Token.put: the callback of dataStore.update with an error
Token_put_update_failed(task) ==
    /\ task.kind = "extend" /\ task.pc = "update"
    /\ bg' = IF [task EXCEPT !.pc = "failed"] \in BagToSet(bg)
             THEN Retire(bg, task)
             ELSE Spawn(Retire(bg, task), [task EXCEPT !.pc = "failed"])
    /\ UNCHANGED <<now, store, IDs, charges, mails, req>>

SlidingNext ==
    \/ \E p \in Single :
          \/ User_checkout(p, "u1", "t1")
          \/ CheckoutStep(p, BOOLEAN, Answers, BOOLEAN)
    \/ TokenTasks
    \/ \E task \in BagToSet(bg) : Token_put_update_failed(task)
    \/ Tick

SlidingSpec ==
    InitShop(0..2) /\ [][SlidingNext]_vars /\ WF_vars(TokenTasks)

\* the checkout of p has passed the token check at time t, and the
\* extension it has started has not read the token yet
C30_Passed(p, t) ==
    /\ req[p].op = "checkout" /\ req[p].pc = "get_isValid"
    /\ now = t
    /\ \E task \in BagToSet(bg) :
          task.kind = "extend" /\ task.id = req[p].tok /\ task.pc = "read"

\* the token of p expires no earlier than one hour after t
C30_Extended(p, t) ==
    /\ req[p].tok \in DOMAIN tokens
    /\ tokens[req[p].tok].expiration >= t + TokenTTL

\* a write of an extension of the token of p has failed
C30_Failed(p) ==
    \E task \in BagToSet(bg) : task.id = req[p].tok /\ task.pc = "failed"

\* a step of a token task: a task leaves bg or moves on
C30_TaskStep ==
    \E task \in BagToSet(bg) : CopiesIn(task, bg') < CopiesIn(task, bg)

Randoms == {0, 1} \X ItemIds

\* sId = Date.now().toString(36) + Math.random().toString(36)
RandomString(t, rnd) == <<t, rnd[1], rnd[2]>>

\* sId.substr(21 - strLength): the last 10 characters are the end of the
\* random part; the last 20 are all but the first character of the time
Substr(sId, strLength) == IF strLength = 10 THEN sId[3] ELSE sId

\* a request POST /items arrives: Item.createUniqueId() is
\* createRandomString(10), whose loop ends with a string that is not in the
\* registry; the item is looked up
Item_post(p, unitPrice, rnd) ==
    /\ CanStart(p)
    /\ LET r == [req[p] EXCEPT !.op = "itemPost"]
           sId == RandomString(now, rnd)
       IN IF ~isValidPrice(unitPrice)
          THEN /\ req' = [req EXCEPT ![p] = Done(r, 400, "MissingField")]
               /\ UNCHANGED IDs
          ELSE /\ sId \notin IDs
               /\ IDs' = IDs \cup {sId}
               /\ req' = [req EXCEPT ![p] =
                            [r EXCEPT !.itemId = Substr(sId, 10),
                                      !.amount = unitPrice,
                                      !.pc = "ipost_read"]]
    /\ UNCHANGED <<now, store, charges, mails, bg>>

\* the callback of dataStore.read('items', id): the item is created unless
\* one with this id exists
Item_post_read(p) ==
    /\ req[p].pc = "ipost_read"
    /\ req' = [req EXCEPT ![p] =
                 IF @.itemId \in DOMAIN items THEN Done(@, 400, "Exists")
                 ELSE [@ EXCEPT !.pc = "ipost_create"]]
    /\ UNCHANGED <<now, store, IDs, charges, mails, bg>>

\* the callback of dataStore.create('items', id, itemData), which fails when
\* the file exists
Item_post_create(p, ok) ==
    /\ req[p].pc = "ipost_create"
    /\ LET r == req[p]
       IN IF ok /\ r.itemId \notin DOMAIN items
          THEN /\ items' = Put(items, r.itemId, r.amount)
               /\ req' = [req EXCEPT ![p] = Done(r, 200, "Item")]
          ELSE /\ req' = [req EXCEPT ![p] = Done(r, 500, "Error")]
               /\ UNCHANGED items
    /\ UNCHANGED <<now, users, tokens, orders, IDs, charges, mails, bg>>

(***************************************************************************)
(* AllocSpec: a process that has started with an empty catalog and an      *)
(* empty registry, and the requests POST /items it gets.                   *)
(***************************************************************************)
InitAlloc ==
    /\ now = 2
    /\ users = EmptyMap /\ tokens = EmptyMap /\ orders = EmptyMap
    /\ items = EmptyMap
    /\ IDs = {}
    /\ charges = <<>> /\ mails = <<>>
    /\ req = [p \in Procs |-> Idle]
    /\ bg = EmptyBag

AllocNext ==
    \/ \E p \in Procs :
          \/ \E unitPrice \in Prices \cup {0}, rnd \in Randoms :
                Item_post(p, unitPrice, rnd)
          \/ Item_post_read(p)
          \/ \E ok \in BOOLEAN : Item_post_create(p, ok)
    \/ Tick

AllocSpec == InitAlloc /\ [][AllocNext]_vars

\* the item ids the calls of the allocator have returned so far
C29_Returned == {Substr(sId, 10) : sId \in IDs}

\* C29: identifiers issued within one process are unique: the string a call
\* of createRandomString returns was not returned by an earlier call.
C29_AllocatorNeverRepeats ==
    [][\A p \in Procs :
          req[p].pc = "idle" /\ req'[p].pc = "ipost_read"
             => req'[p].itemId \notin C29_Returned]_vars

(***************************************************************************)
(* The requests the router dispatches to the handlers of items and users.  *)
(***************************************************************************)
\* the HTTP methods of a request
Methods == {"get", "post", "put", "delete", "patch"}

\* Item.httpRequestHandler: GET is Item.get, any other method is answered
\* with 405
Item_httpRequestHandler(p, method) ==
    /\ CanStart(p)
    /\ LET r == [req[p] EXCEPT !.op = "items"]
       IN req' = [req EXCEPT ![p] =
                    IF method = "get" THEN [r EXCEPT !.pc = "iget_list"]
                    ELSE Done(r, 405, "")]
    /\ UNCHANGED <<now, store, IDs, charges, mails, bg>>

\* Item.get without an id is Item.list: the callback with the items read
Item_get_list(p, ok) ==
    /\ req[p].pc = "iget_list"
    /\ req' = [req EXCEPT ![p] =
                 IF ~ok THEN Done(@, 500, "CatalogUnavailable")
                 ELSE IF DOMAIN items = {} THEN Hung(@)
                 ELSE Done(@, 200, "Items")]
    /\ UNCHANGED <<now, store, IDs, charges, mails, bg>>

\* a request PUT /users arrives
User_put(p, tok, payload) ==
    /\ CanStart(p)
    /\ req' = [req EXCEPT ![p] =
                 UserPutEntry([req[p] EXCEPT !.op = "userPut", !.tok = tok,
                                             !.email = Get(payload, "email", NoEmail)],
                              payload)]
    /\ UNCHANGED <<now, store, IDs, charges, mails, bg>>

UserPutStep(p, oks) ==
    \/ User_put_isValid(p)
    \/ User_put_read(p)
    \/ \E ok \in oks : User_put_update(p, ok)

(***************************************************************************)
(* RouterSpec: requests to /items and /users that arrive one after the     *)
(* other; u1 is logged in with the token t1.                               *)
(***************************************************************************)
\* the payloads of PUT /users: a cart, or a list of orders of any strings
UserPayloads ==
    {[email |-> "u1", cart |-> [i \in {"A"} |-> 1]]}
    \cup {[email |-> "u1", orders |-> l] :
             l \in {<<>>, <<1>>, <<ItemPath("A")>>, <<1, ItemPath("B")>>}}

InitRouter ==
    /\ InitCommon
    /\ users = [e \in {"u1"} |-> [email |-> e, orders |-> <<>>, cart |-> EmptyMap]]
    /\ tokens = [id \in {"t1"} |-> IssuedToken(id, "u1", 2)]
    /\ orders = [id \in {1} |-> PostedOrder(1, [i \in {"B"} |-> 1])]
    /\ IDs = {1} /\ charges = <<>> /\ mails = <<>>

RouterNext ==
    \/ \E p \in Procs :
          \/ Quiet /\ \E method \in Methods : Item_httpRequestHandler(p, method)
          \/ Quiet /\ \E payload \in UserPayloads : User_put(p, "t1", payload)
          \/ Quiet /\ User_delete(p, "u1", "t1")
          \/ \E ok \in BOOLEAN : Item_get_list(p, ok)
          \/ UserPutStep(p, BOOLEAN)
          \/ UserDeleteStep(p, BOOLEAN)
    \/ ExtendTasks

RouterSpec == InitRouter /\ [][RouterNext]_vars

\* C31: the catalog is read-only through the public interface: no step of a
\* request dispatched by the router changes the items collection, and the
\* items handler answers every method other than GET with 405.
C31_CatalogIsReadOnly ==
    [][/\ items' = items
       /\ \A p \in Procs :
             req[p].pc = "idle" /\ req'[p].op = "items" /\ req'[p].pc = "done"
                => req'[p].status = 405]_vars


(***************************************************************************)
(* DoubleSpec: complete is called on instances of the one stored order,    *)
(* by callers that do not wait for each other.  The store, the gateway and *)
(* the mail transport answer every call with success, so that a call that  *)
(* starts after another one has recorded completedOn finds the order       *)
(* completed.                                                              *)
(***************************************************************************)
InitDouble ==
    /\ InitCommon
    /\ users = EmptyMap
    /\ tokens = EmptyMap
    /\ IDs = {1}
    /\ \E m \in Carts : orders = [id \in {1} |-> PostedOrder(1, m)]
    /\ charges = <<>>
    /\ mails = <<>>

DoubleNext ==
    \/ \E p \in Procs :
          \/ \E id \in DOMAIN orders : Order_complete(p, id)
          \/ Order_complete_list(p, TRUE)
          \/ Order_complete_reads(p)
          \/ Order_complete_pay(p, "paid")
          \/ Order_put_list(p, TRUE)
          \/ Order_put_reads(p)
          \/ Order_put_read(p)
          \/ Order_put_update(p, TRUE)
          \/ Order_invoice_list(p, TRUE)
          \/ Order_invoice_reads(p)
          \/ Order_invoice_mail(p, TRUE)
    \/ Tick

DoubleSpec == InitDouble /\ [][DoubleNext]_vars

\* the charges the gateway has made for the order id
ChargesOf(id) == {i \in DOMAIN charges : charges[i].order = id}

\* C32: two complete calls on the same order whose steps interleave (the
\* second starts before the first has recorded completedOn) charge the
\* payment gateway at most once in total.
C32_InterleavedCompletesChargeOnce ==
    \A id \in DOMAIN orders : Cardinality(ChargesOf(id)) <= 1


(***************************************************************************)
(* HangSpec: one checkout of u1 while items are removed from the catalog.  *)
(* The store answers every request with success, the gateway and the mail  *)
(* transport answer as they like.  Node runs the callback of every I/O     *)
(* operation that has answered: the steps of the checkout and the token    *)
(* tasks are fair.                                                         *)
(***************************************************************************)
HangStep == \E p \in Single : CheckoutStep(p, {TRUE}, Answers, BOOLEAN)

HangNext ==
    \/ \E p \in Single : User_checkout(p, "u1", "t1")
    \/ HangStep
    \/ TokenTasks
    \/ \E id \in ItemIds : Item_delete(id)

HangSpec ==
    InitShop({2}) /\ [][HangNext]_vars /\ WF_vars(HangStep) /\ WF_vars(TokenTasks)

\* C33: every checkout eventually reaches Done or an error: when every
\* store operation and every external call answers, the callback of the
\* checkout is eventually invoked, for every catalog content, the empty
\* catalog and a catalog of which one item record cannot be read included.
C33_CheckoutCallsBack ==
    \A p \in Single :
        (req[p].op = "checkout" /\ req[p].pc # "idle") ~> req[p].pc = "done"


(***************************************************************************)
(* The callback of User.checkout (ExpirySpec).                             *)
(***************************************************************************)
\* the status codes the server writes for a checkout
HttpStatuses == {200, 400, 403, 404, 500}

LostNext ==
    \/ \E p \in Procs :
          \/ User_checkout(p, "u1", "t1")
          \/ User_addToCart(p, "u1", "t1", "A", 1)
          \/ User_cart_list(p, TRUE)
          \/ CheckoutStep(p, {TRUE}, {"paid"}, {FALSE})
    \/ ExtendTasks

LostSpec == InitRace /\ [][LostNext]_vars

\* C35: no cart entry is lost by a race between cart changes and checkout:
\* when addToCart of A for u1 has called back with success and a checkout of
\* u1 has finished too, A is in an order that a checkout created or still
\* in the persisted cart of u1.
C35_NoCartEntryLost ==
    \A p, q \in Procs :
        (/\ req[p].op = "addToCart" /\ req[p].pc = "done" /\ req[p].status = 200
         /\ req[q].op = "checkout" /\ req[q].pc = "done")
           => \/ "A" \in DOMAIN users["u1"].cart
              \/ \E id \in DOMAIN orders : "A" \in DOMAIN orders[id].items


(***************************************************************************)
(* ReviveSpec: a checkout or a cart update of u1 is in flight (the first   *)
(* request) when u1 deletes its account with User.delete, which deletes    *)
(* the token t1, the user and the order 1 it lists.  The extensions of the *)
(* token that the requests have started run along.  The store and the      *)
(* gateway answer with success, and the invoice is not sent.               *)
(***************************************************************************)
InitRevive ==
    /\ InitCommon
    /\ users = [e \in {"u1"} |->
                  [email |-> e, orders |-> <<1>>, cart |-> [i \in {"B"} |-> 1]]]
    /\ tokens = [id \in {"t1"} |-> IssuedToken(id, "u1", 2)]
    /\ orders = [id \in {1} |-> CompletedOrder(1, [i \in {"B"} |-> 1])]
    /\ IDs = {1}
    /\ charges = <<[order |-> 1, by |-> 0, amount |-> 5 * MinorUnits]>>
    /\ mails = <<>>

ReviveNext ==
    \/ \E p \in Single :
          \/ User_checkout(p, "u1", "t1")
          \/ User_addToCart(p, "u1", "t1", "A", 1)
          \/ User_cart_list(p, TRUE)
          \/ CheckoutStep(p, {TRUE}, {"paid"}, {FALSE})
    \/ \E p \in Procs \ Single :
          \/ User_delete(p, "u1", "t1")
          \/ UserDeleteStep(p, {TRUE})
    \/ ExtendTasks

ReviveSpec == InitRevive /\ [][ReviveNext]_vars

\* C36: a deleted record is never re-created by an operation that was in
\* flight when it was deleted: no step of a checkout, of a cart update or of
\* a token extension adds a user or a token to the store (no user is
\* registered and no token is issued in ReviveSpec), and the write of an
\* operation that finds its user missing fails.
C36_DeletedRecordStaysDeleted ==
    [][/\ DOMAIN users' \subseteq DOMAIN users
       /\ DOMAIN tokens' \subseteq DOMAIN tokens
       /\ \A p \in Single :
             /\ req[p].pc = "uput_update" /\ req'[p].pc = "done"
             /\ req[p].pendUser.email \notin DOMAIN users
             => req'[p].status = 500 /\ users' = users]_vars

\* C36 witness: the checkout had read the user and has charged the order
\* when the user and the token were deleted; its write of the user failed
C36_Witness ==
    \E p \in Single :
        /\ req[p].op = "checkout" /\ req[p].pc = "done"
        /\ req[p].nch = 1 /\ req[p].status = 500
        /\ "u1" \notin DOMAIN users
        /\ "t1" \notin DOMAIN tokens


(***************************************************************************)
(* User.post and Token.post.  The user documents of the model leave out    *)
(* the names, the address and the password: every user has registered with *)
(* the password "secret".                                                  *)
(***************************************************************************)
Passwords == {"", "secret", "other1"}

\* helpers.isValidPassword, for the passwords of the model
isValidPassword(value) == value # ""

\* helpers.hash: the SHA256 HMAC of the string
Hash(value) == <<"sha256", value>>

\* the password field of every stored user
StoredPassword == Hash("secret")

\* a create that opens the file with a flag that truncates a file that exists
User_post_create_overwrite(p, ok) ==
    /\ req[p].pc = "upost_create"
    /\ LET r == req[p]
       IN IF ok
          THEN /\ users' = Put(users, r.pendUser.email, r.pendUser)
               /\ req' = [req EXCEPT ![p] = Done(r, 200, "User")]
          ELSE /\ req' = [req EXCEPT ![p] = Done(r, 500, "Error")]
               /\ UNCHANGED users
    /\ UNCHANGED <<now, tokens, orders, items, IDs, charges, mails, bg>>

\* a request POST /users arrives; filled: the names, the password and the
\* agreement are there
User_post(p, email, filled) ==
    /\ CanStart(p)
    /\ LET r == [req[p] EXCEPT !.op = "userPost", !.email = email]
       IN req' = [req EXCEPT ![p] =
                    IF filled /\ isValidEmail(email)
                    THEN [r EXCEPT !.pc = "upost_read"]
                    ELSE Done(r, 400, "MissingField")]
    /\ UNCHANGED <<now, store, IDs, charges, mails, bg>>

\* the callback of dataStore.read("users", email): the user is created
\* unless the read has found one
User_post_read(p) ==
    /\ req[p].pc = "upost_read"
    /\ LET r == req[p]
           userData == UserNew([email |-> r.email, cart |-> EmptyMap])
       IN req' = [req EXCEPT ![p] =
                    IF r.email \in DOMAIN users THEN Done(r, 400, "Exists")
                    ELSE [r EXCEPT !.pendUser = userData, !.pc = "upost_create"]]
    /\ UNCHANGED <<now, store, IDs, charges, mails, bg>>

\* the callback of dataStore.create("users", email, userData): the file is
\* opened with the flag wx, which fails when it exists
User_post_create(p, ok) ==
    /\ req[p].pc = "upost_create"
    /\ LET r == req[p]
       IN IF ok /\ r.pendUser.email \notin DOMAIN users
          THEN /\ users' = Put(users, r.pendUser.email, r.pendUser)
               /\ req' = [req EXCEPT ![p] = Done(r, 200, "User")]
          ELSE /\ req' = [req EXCEPT ![p] = Done(r, 500, "Error")]
               /\ UNCHANGED users
    /\ UNCHANGED <<now, tokens, orders, items, IDs, charges, mails, bg>>

\* a request POST /tokens arrives (a login)
Token_post(p, email, password) ==
    /\ CanStart(p)
    /\ LET r == [req[p] EXCEPT !.op = "tokenPost", !.email = email]
       IN req' = [req EXCEPT ![p] =
                    IF isValidEmail(email) /\ isValidPassword(password)
                    THEN [r EXCEPT !.payload = [email |-> email,
                                                password |-> password],
                                   !.pc = "tpost_read"]
                    ELSE Done(r, 400, "MissingField")]
    /\ UNCHANGED <<now, store, IDs, charges, mails, bg>>

\* the callback of dataStore.read("users", email): the password is compared
\* and the token object is built.  tokenId is what Token.createUniqueId()
\* gives: a random string, any id of the model.
Token_post_read(p, tokenId) ==
    /\ req[p].pc = "tpost_read"
    /\ LET r == req[p]
           tokenObject == [id |-> tokenId, email |-> r.email,
                           expiration |-> now + TokenTTL]
       IN req' = [req EXCEPT ![p] =
                    IF r.email \notin DOMAIN users THEN Done(r, 404, "NotFound")
                    ELSE IF Hash(r.payload.password) # StoredPassword
                    THEN Done(r, 400, "PasswordMismatch")
                    ELSE [r EXCEPT !.payload = tokenObject, !.tok = tokenId,
                                   !.pc = "tpost_create"]]
    /\ UNCHANGED <<now, store, IDs, charges, mails, bg>>

\* the callback of dataStore.create("tokens", tokenId, tokenObject)
Token_post_create(p, ok) ==
    /\ req[p].pc = "tpost_create"
    /\ LET r == req[p]
       IN IF ok /\ r.payload.id \notin DOMAIN tokens
          THEN /\ tokens' = Put(tokens, r.payload.id, r.payload)
               /\ req' = [req EXCEPT ![p] = Done(r, 200, "Token")]
          ELSE /\ req' = [req EXCEPT ![p] = Done(r, 500, "Error")]
               /\ UNCHANGED tokens
    /\ UNCHANGED <<now, users, orders, items, IDs, charges, mails, bg>>

(***************************************************************************)
(* CreateSpec: registrations, logins and POST /orders that do not wait for *)
(* each other, in a process that has just started: its registry of random  *)
(* strings is empty, and the store holds the user u1, its token t1 and its *)
(* order 1 of an earlier run.                                              *)
(***************************************************************************)
InitCreate ==
    /\ InitCommon
    /\ users = [e \in {"u1"} |->
                  [email |-> e, orders |-> <<1>>, cart |-> [i \in {"B"} |-> 1]]]
    /\ tokens = [id \in {"t1"} |-> IssuedToken(id, "u1", 1)]
    /\ orders = [id \in {1} |-> CompletedOrder(1, [i \in {"B"} |-> 1])]
    /\ IDs = {}
    /\ charges = <<[order |-> 1, by |-> 0, amount |-> 5 * MinorUnits]>>
    /\ mails = <<>>

CreateNext ==
    \/ \E p \in Procs :
          \/ \E email \in Emails, filled \in BOOLEAN : User_post(p, email, filled)
          \/ User_post_read(p)
          \/ \E ok \in BOOLEAN : User_post_create(p, ok)
          \/ \E email \in Emails, password \in Passwords :
                Token_post(p, email, password)
          \/ \E tokenId \in TokenIds : Token_post_read(p, tokenId)
          \/ \E ok \in BOOLEAN : Token_post_create(p, ok)
          \/ Order_post(p, [email |-> "u1", items |-> [i \in {"A"} |-> 1]])
          \/ PostStep(p)
    \/ Tick

CreateSpec == InitCreate /\ [][CreateNext]_vars

\* the key under which the request p creates a record, in each collection
C37_Creates(p, dir, key) ==
    \/ dir = "users" /\ req[p].pc = "upost_create" /\ req[p].pendUser.email = key
    \/ dir = "tokens" /\ req[p].pc = "tpost_create" /\ req[p].payload.id = key
    \/ dir = "orders" /\ req[p].pc = "post_create" /\ req[p].pendOrder.id = key

\* the creations of a record for the key that have called back with success
C37_Created(op, key) ==
    {p \in Procs : /\ req[p].op = op /\ req[p].pc = "done" /\ req[p].status = 200
                   /\ IF op = "userPost" THEN req[p].email = key
                      ELSE req[p].tok = key}

\* C37: creation never overwrites an existing record: a creation of a user,
\* a token or an order under a key that exists fails with an error status,
\* no step changes or removes a record that is stored, and of the creations
\* under one key, concurrent ones included, at most one succeeds.
C37_CreationNeverOverwrites ==
    [][/\ \A k \in DOMAIN users : k \in DOMAIN users' /\ users'[k] = users[k]
       /\ \A k \in DOMAIN tokens : k \in DOMAIN tokens' /\ tokens'[k] = tokens[k]
       /\ \A k \in DOMAIN orders : k \in DOMAIN orders' /\ orders'[k] = orders[k]
       /\ \A p \in Procs :
             /\ req'[p] # req[p] /\ req'[p].pc = "done"
             /\ \/ \E k \in DOMAIN users : C37_Creates(p, "users", k)
                \/ \E k \in DOMAIN tokens : C37_Creates(p, "tokens", k)
                \/ \E k \in DOMAIN orders : C37_Creates(p, "orders", k)
             => req'[p].status = 500
       /\ \A e \in Emails : Cardinality(C37_Created("userPost", e)') <= 1
       /\ \A id \in TokenIds : Cardinality(C37_Created("tokenPost", id)') <= 1]_vars

\* C37 witness: two registrations of u2 have both found no user u2; one has
\* created it, the other has failed, and the user u1 is as it was
C37_Witness ==
    /\ \E p, q \in Procs :
          /\ req[p].op = "userPost" /\ req[p].email = "u2"
          /\ req[p].pc = "done" /\ req[p].status = 200
          /\ req[q].op = "userPost" /\ req[q].email = "u2"
          /\ req[q].pc = "done" /\ req[q].status = 500
    /\ "u2" \in DOMAIN users
    /\ users["u1"].cart = [i \in {"B"} |-> 1]


(***************************************************************************)
(* LedgerSpec: two requests of u1 that do not wait for each other, each a  *)
(* checkout or a change of the cart; any request to the store, the gateway *)
(* or the mail transport may fail.  No order is updated or deleted by a    *)
(* client, and no user update carries an orders list.                      *)
(***************************************************************************)
Pair == {1, 2}

LedgerNext ==
    \/ \E p \in Pair :
          \/ User_checkout(p, "u1", "t1")
          \/ User_addToCart(p, "u1", "t1", "A", 1)
          \/ User_removeFromCart(p, "u1", "t1", "B")
          \/ \E ok \in BOOLEAN : User_cart_list(p, ok)
          \/ CheckoutStep(p, BOOLEAN, Answers, BOOLEAN)
    \/ ExtendTasks

LedgerSpec == InitRace /\ [][LedgerNext]_vars

\* C38: with checkouts and cart operations only, each identifier in the
\* persisted orders list of a user refers to a persisted order that is owned
\* by that user, completed and charged, and no identifier occurs twice.
C38_OrdersListIsSound ==
    \A e \in DOMAIN users :
        LET l == users[e].orders
        IN \A i \in 1..Len(l) :
              /\ l[i] \in DOMAIN orders
              /\ orders[l[i]].email = e
              /\ AlreadyCompleted(orders[l[i]])
              /\ orders[l[i]].paymentInfo # NoPayment
              /\ ChargesOf(l[i]) # {}
              /\ \A j \in 1..Len(l) : j # i => l[j] # l[i]

\* C38 witness: a checkout of u1 has added its order to the list while
\* another checkout of u1, whose order was charged, has failed to store it
C38_Witness ==
    /\ Len(users["u1"].orders) = 1
    /\ \E p, q \in Pair :
          /\ req[p].op = "checkout" /\ req[p].pc = "done" /\ req[p].status = 200
          /\ req[q].op = "checkout" /\ req[q].pc = "done" /\ req[q].status = 500
          /\ req[q].nch = 1
          /\ ~AlreadyCompleted(orders[req[q].order.id])


(***************************************************************************)
(* dataStore.update in its steps, for the extension of a token: the file   *)
(* is opened with the flag r+ and truncated, then the document is written. *)
(***************************************************************************)
\* the callbacks of fs.open and fs.truncate: the file holds no data
Token_put_truncate(task) ==
    /\ task.kind = "extend" /\ task.pc = "update"
    /\ IF task.id \in DOMAIN tokens
       THEN /\ tokens' = [tokens EXCEPT ![task.id] = EmptyFile]
            /\ bg' = Spawn(Retire(bg, task), [task EXCEPT !.pc = "write"])
       ELSE /\ bg' = Retire(bg, task)
            /\ UNCHANGED tokens
    /\ UNCHANGED <<now, users, orders, items, IDs, charges, mails, req>>

\* the callbacks of fs.writeFile and fs.close: the file holds the token
\* with the new expiration
Token_put_write(task) ==
    /\ task.kind = "extend" /\ task.pc = "write"
    /\ tokens' = IF task.id \in DOMAIN tokens
                 THEN [tokens EXCEPT ![task.id] =
                         [id |-> task.id, email |-> task.email,
                          expiration |-> task.exp]]
                 ELSE tokens
    /\ bg' = Retire(bg, task)
    /\ UNCHANGED <<now, users, orders, items, IDs, charges, mails, req>>

(***************************************************************************)
(* TornSpec: one checkout of u1 with the token t1, which does not expire   *)
(* and is not deleted, and the extensions of t1 that the checkout starts,  *)
(* whose updates are taken in their steps.  The store and the gateway      *)
(* answer with success, and the invoice is not sent.                       *)
(***************************************************************************)
TornNext ==
    \/ \E p \in Single :
          \/ User_checkout(p, "u1", "t1")
          \/ CheckoutStep(p, {TRUE}, {"paid"}, {FALSE})
    \/ \E task \in BagToSet(bg) :
          \/ Token_put_read(task)
          \/ Token_put_truncate(task)
          \/ Token_put_write(task)

TornSpec == InitRace /\ [][TornNext]_vars

\* C39: a read of a record that exists and is never deleted returns the
\* document before or after a concurrent update, never a not-found or empty
\* result: a token check that runs while the token is being updated does
\* not fail with 403 (t1 is stored and has not expired in TornSpec).
C39_ReadDuringUpdate ==
    [][\A p \in Single :
          /\ req[p].pc \in {"co_isValid", "get_isValid", "uput_isValid"}
          /\ req'[p] # req[p]
          /\ "t1" \in DOMAIN tokens
          => ~(req'[p].pc = "done" /\ req'[p].status = 403)]_vars

=============================================================================
